---- MODULE Spec2Model ----
(***************************************************************************)
(* Proxy pairing (vouching) subsystem of the pairing protocol handler:     *)
(* the voucher's vouching sessions, session-key cache and vouch queue, the *)
(* target's handling of ProxyPairingRequest and the vouchee's handling of  *)
(* ProxyPairingComplete.  Every handler is split at its suspension points  *)
(* (lock acquisitions, queue I/O, sends), so that the interleavings of the *)
(* handlers are the executions of the model.                               *)
(***************************************************************************)
EXTENDS Bags, FiniteSets, Integers, Sequences, TLC

\* ------------------------------------------------------------------ bounds
MaxTargets == 1        \* longest target list given to start_proxy_vouching
MaxStarts == 1         \* calls of start_proxy_vouching in one behaviour
MaxTicks == 1          \* clock advances in one behaviour
MaxInject == 1         \* requests from outside the protocol, per behaviour
MaxFrames == 2         \* frames a peer writes on one stream

\* --------------------------------------------------------------- constants
QueueExpirySecs == 7 * 24 * 3600   \* chrono::Duration::days(7)
CleanupDelaySecs == 3600
DefaultSignatureMaxAge == 600
DefaultResponseTimeout == 300
DefaultRetryLimit == 5
MAX_MESSAGE_SIZE == 1048576           \* 1024 * 1024
ScanTimeoutSecs == 300               \* chrono::Duration::minutes(5)
SessionTimeoutSecs == 600            \* chrono::Duration::minutes(10)

\* --------------------------------------------------------------- universe
Local == "A"                       \* the voucher
Vouchee == "B"                     \* the device that pairs directly with A
Devices == {"A", "B", "C", "D"}
TargetDevices == {"C"}             \* devices that run the target side; D is never paired
SessionIds == {"s1"}
None == "none"
NoSession == [state |-> "NoSession"]
NoVouching == [state |-> "NoVouching"]
NoPeer == [state |-> "NoPeer"]
TickSteps == {DefaultResponseTimeout + 1, QueueExpirySecs}

TerminalStatuses == {"Accepted", "Rejected", "Unreachable"}

\* ------------------------------------------------------------ pure helpers
RECURSIVE SeqToSet(_)
SeqToSet(s) == IF s = <<>> THEN {} ELSE {Head(s)} \cup SeqToSet(Tail(s))

SeqsUpTo(S, n) == UNION {[1..k -> S] : k \in 0..n}

\* SessionKeys::from_shared_secret: two distinct keys expanded from one secret
SessionKeysFromSharedSecret(secret) ==
    [send_key |-> <<secret, "send">>, receive_key |-> <<secret, "recv">>]

\* SessionKeys::swap_keys: the peer's view
SwapKeys(k) == [send_key |-> k.receive_key, receive_key |-> k.send_key]

derive_proxy_shared_secret(voucher, target, vouchee, vouchee_pk, base_secret) ==
    <<"hkdf", base_secret, voucher, target, vouchee, vouchee_pk>>

\* a derivation that hands both sides the same view of the keys
DeriveWithoutSwap(voucher, target, vouchee, vouchee_pk, base_secret) ==
    LET receiver_keys == SessionKeysFromSharedSecret(
            derive_proxy_shared_secret(voucher, target, vouchee, vouchee_pk, base_secret))
    IN  [receiver_keys |-> receiver_keys, vouchee_keys |-> receiver_keys]

derive_proxy_session_keys(voucher, target, vouchee, vouchee_pk, base_secret) ==
    LET receiver_keys == SessionKeysFromSharedSecret(
            derive_proxy_shared_secret(voucher, target, vouchee, vouchee_pk, base_secret))
    IN  [receiver_keys |-> receiver_keys, vouchee_keys |-> SwapKeys(receiver_keys)]

build_vouch_payload(session_id, vouchee, vouchee_pk, timestamp) ==
    [vouchee_device_id |-> vouchee, vouchee_public_key |-> vouchee_pk,
     timestamp |-> timestamp, session_id |-> session_id]

\* identity.sign: a signature names its signer and the document it covers
sign_vouch_payload(signer, payload) == [signer |-> signer, payload |-> payload]

\* ------------------------------------------------------------------- state
VARIABLES
    active_sessions,    \* voucher: session id -> PairingSession
    pairing_codes,      \* voucher: session id -> PairingCode secret
    vouching_sessions,  \* voucher: session id -> VouchingSession
    vouching_keys,      \* voucher: (session id, target) -> cached vouchee keys
    queue_open,         \* voucher: init_vouching_queue has run
    vouching_queue,     \* voucher: rows of the vouching_queue table, in rowid order
    cleanup_timers,     \* voucher: session ids with a scheduled post-completion cleanup
    proxy_config,       \* device -> ProxyPairingConfig
    registry,           \* device -> peer device -> registry record
    connected,          \* devices the voucher's endpoint is connected to
    chan_open,          \* voucher: the command channel to the event loop is open
    net,                \* bag of pairing messages in flight
    tasks,              \* voucher: task slot -> position and locals of the handler in it
    pending,            \* target -> session id -> PendingProxyConfirmation
    timers,             \* target: spawned confirmation timers
    stores,             \* history: pairings stored on a target because of a request
    now,                \* the clock, in seconds
    ticks, starts, injected,  \* counters that bound a behaviour
    persistence         \* voucher: the pairing sessions last saved to durable storage

vars == <<active_sessions, pairing_codes, vouching_sessions, vouching_keys, queue_open,
          vouching_queue, cleanup_timers, proxy_config, registry, connected, chan_open,
          net, tasks, pending, timers, stores, now, ticks, starts, injected, persistence>>

voucherVars == <<active_sessions, pairing_codes, vouching_sessions, vouching_keys,
                 queue_open, vouching_queue, cleanup_timers, connected, chan_open, tasks,
                 starts, persistence>>
targetVars == <<pending, timers, stores>>

SpvSlots == {"spv"}
RespSlots == {"resp1"}
TaskIds == SpvSlots \cup RespSlots \cup {"drain"}

NoMsg == [type |-> "none"]
NoUvs == [device_id |-> None, status |-> None, reason |-> None]
NoKeys == [send_key |-> <<>>, receive_key |-> <<>>]
NoSecret == <<>>
NoPk == <<>>
NoTime == 0 - 1
Idle == [pc |-> "idle", sid |-> None, targets |-> <<>>, i |-> 0, ts |-> NoTime,
         vouchee |-> None, pk |-> NoPk, secret |-> NoSecret,
         entries |-> <<>>, msg |-> NoMsg, uvs |-> NoUvs, ret |-> None,
         snap |-> NoVouching, result |-> None, retval |-> NoVouching]

\* ---------------------------------------------------------------- registry
\* DeviceRegistry (an external collaborator): device -> peer -> record
PairedRecord(ptype, trust, by, keys, node, persisted) ==
    [state |-> "Paired", pairing_type |-> ptype, trust_level |-> trust, vouched_by |-> by,
     keys |-> keys, node_id |-> node, persisted |-> persisted]

get_device_state(d, p) == registry[d][p]
HasInfo(d, p) == registry[d][p].state = "Paired"
get_node_id_for_device(d, p) == IF HasInfo(d, p) THEN registry[d][p].node_id ELSE None
is_node_connected(p) == p \in connected /\ HasInfo(Local, p)
NodeOf(d) == d       \* a device's node identity is its long-term public key

complete_pairing(reg, d, p, keys, ptype, by) ==
    [reg EXCEPT ![d][p] = PairedRecord(ptype, "Trusted", by, keys, NodeOf(p), TRUE)]

get_paired_devices(d) == {p \in Devices : HasInfo(d, p)}

\* ------------------------------------------------------------- vouch queue
\* VouchQueueStatus::as_str / from_str
as_str(status) == IF status = "Waiting" THEN "waiting" ELSE "queued"
from_str(text) == IF text = "waiting" THEN "Waiting" ELSE "Queued"

SameKey(row, sid, target) == row.session_id = sid /\ row.target_device_id = target

HasRow(q, sid, target) == \E j \in 1..Len(q) : SameKey(q[j], sid, target)

\* a VouchingQueueEntry as the row the INSERT writes
RowOf(e) == [e EXCEPT !.status = as_str(e.status)]

\* a row as the VouchingQueueEntry list_entries parses
EntryOf(row) == [row EXCEPT !.status = from_str(row.status)]

\* an INSERT without the ON CONFLICT clause and without the UNIQUE constraint
UpsertAppends(q, e) == Append(q, RowOf(e))

upsert_entry(q, e) ==
    IF HasRow(q, e.session_id, e.target_device_id)
    THEN [j \in 1..Len(q) |->
            IF SameKey(q[j], e.session_id, e.target_device_id) THEN RowOf(e) ELSE q[j]]
    ELSE Append(q, RowOf(e))

list_entries(q) == [j \in 1..Len(q) |-> EntryOf(q[j])]

\* an UPDATE that does not write last_attempt_at
UpdateStatusUnstamped(q, sid, target, status, retry_count, last_attempt_at) ==
    [j \in 1..Len(q) |->
        IF SameKey(q[j], sid, target)
        THEN [q[j] EXCEPT !.status = as_str(status), !.retry_count = retry_count]
        ELSE q[j]]

update_status(q, sid, target, status, retry_count, last_attempt_at) ==
    [j \in 1..Len(q) |->
        IF SameKey(q[j], sid, target)
        THEN [q[j] EXCEPT !.status = as_str(status), !.retry_count = retry_count,
                          !.last_attempt_at = last_attempt_at]
        ELSE q[j]]

\* a delete that leaves the row in place
RemoveEntrySkipped(q, sid, target) == q

remove_entry(q, sid, target) == SelectSeq(q, LAMBDA row : ~SameKey(row, sid, target))

remove_expired(q, t) == SelectSeq(q, LAMBDA row : ~(row.expires_at <= t))

\* ------------------------------------------------------------------ wire
ProxyPairingRequest(to, from, sid, vouchee, pk, voucher, sig, ts, keys) ==
    [type |-> "ProxyPairingRequest", to |-> to, from |-> from, session_id |-> sid,
     vouchee_device_id |-> vouchee, vouchee_public_key |-> pk,
     voucher_device_id |-> voucher, voucher_signature |-> sig, timestamp |-> ts,
     proxied_session_keys |-> keys]

ProxyPairingResponse(to, from, sid, accepting, accepted, reason) ==
    [type |-> "ProxyPairingResponse", to |-> to, from |-> from, session_id |-> sid,
     accepting_device_id |-> accepting, accepted |-> accepted, reason |-> reason]

ProxyPairingComplete(to, from, sid, voucher, accepted_by, rejected_by) ==
    [type |-> "ProxyPairingComplete", to |-> to, from |-> from, session_id |-> sid,
     voucher_device_id |-> voucher, accepted_by |-> accepted_by,
     rejected_by |-> rejected_by]

Put(bag, m) == bag (+) SetToBag({m})
Take(bag, m) == bag (-) SetToBag({m})

\* ------------------------------------------------- voucher: task plumbing
SetTask(t, rec) == tasks' = [tasks EXCEPT ![t] = rec]

\* the handler in slot t returns: start_proxy_vouching keeps its result for its
\* caller, a stream handler or a drainer pass just ends
Finish(t, res, retval) ==
    IF t \in SpvSlots
    THEN [Idle EXCEPT !.pc = "done", !.result = res, !.retval = retval]
    ELSE Idle

\* enter update_vouch_status(sid, device, status, reason); ret is where the
\* caller continues
CallUvs(rec, device, status, reason, ret) ==
    [rec EXCEPT !.pc = IF status \in {"Rejected", "Unreachable"}
                       THEN "uvs_keys" ELSE "uvs_write",
                !.uvs = [device_id |-> device, status |-> status, reason |-> reason],
                !.ret = ret]

\* the caller's continuation after update_vouch_status / finalize returned Ok
Return(t) ==
    LET rec == [tasks[t] EXCEPT !.uvs = NoUvs, !.snap = NoVouching, !.ret = None] IN
    CASE tasks[t].ret = "spv_loop" -> [rec EXCEPT !.pc = "spv_loop", !.i = @ + 1]
      [] tasks[t].ret = "spv_ok"   -> Finish(t, "ok", tasks[t].retval)
      [] tasks[t].ret = "dr_loop"  -> [rec EXCEPT !.pc = "dr_loop", !.i = @ + 1]
      [] OTHER                     -> Idle

\* ------------------------------------------- voucher: update_vouch_status
AllTerminal(vouches) ==
    \A j \in 1..Len(vouches) : vouches[j].status \in TerminalStatuses

HasVouch(vouches, device) == \E j \in 1..Len(vouches) : vouches[j].device_id = device

\* first entry for the device (iter_mut().find) is rewritten, else one is pushed
SetVouch(vouches, device, status, reason) ==
    IF HasVouch(vouches, device)
    THEN LET first == CHOOSE j \in 1..Len(vouches) :
                         /\ vouches[j].device_id = device
                         /\ \A k \in 1..(j - 1) : vouches[k].device_id # device
         IN  [vouches EXCEPT ![first] = [device_id |-> device, status |-> status,
                                         reason |-> reason]]
    ELSE Append(vouches, [device_id |-> device, status |-> status, reason |-> reason])

\* lines 739-742: a negative outcome drops the cached keys first
UvsKeys(t) ==
    /\ tasks[t].pc = "uvs_keys"
    /\ vouching_keys' = [vouching_keys EXCEPT ![<<tasks[t].sid, tasks[t].uvs.device_id>>] = NoKeys]
    /\ SetTask(t, [tasks[t] EXCEPT !.pc = "uvs_write"])
    /\ UNCHANGED <<active_sessions, pairing_codes, vouching_sessions, queue_open,
                   vouching_queue, cleanup_timers, proxy_config, registry, connected,
                   chan_open, net, pending, timers, stores, now, ticks, starts, injected, persistence>>

\* lines 744-791: under the sessions write lock, set the vouch and decide completion
UvsWrite(t) ==
    /\ tasks[t].pc = "uvs_write"
    /\ LET sid == tasks[t].sid
           session == vouching_sessions[sid]
           u == tasks[t].uvs
       IN  IF session.state = "NoVouching"
           THEN /\ SetTask(t, Finish(t, "err", NoVouching))
                /\ UNCHANGED vouching_sessions
           ELSE LET vouches == SetVouch(session.vouches, u.device_id, u.status, u.reason)
                    should_finalize == AllTerminal(vouches) /\ session.state # "Completed"
                IN  /\ vouching_sessions' =
                          [vouching_sessions EXCEPT ![sid] =
                              [session EXCEPT !.vouches = vouches,
                                              !.state = IF should_finalize
                                                        THEN "Completed" ELSE @]]
                    /\ SetTask(t, IF should_finalize
                                  THEN [tasks[t] EXCEPT !.pc = "fin_read"]
                                  ELSE Return(t))
    /\ UNCHANGED <<active_sessions, pairing_codes, vouching_keys, queue_open,
                   vouching_queue, cleanup_timers, proxy_config, registry, connected,
                   chan_open, net, pending, timers, stores, now, ticks, starts, injected, persistence>>

\* -------------------------------------- voucher: finalize_vouching_session
Accepted_by(snap) ==
    LET ok(v) == /\ v.status = "Accepted"
                 /\ HasInfo(Local, v.device_id)
                 /\ vouching_keys[<<snap.id, v.device_id>>] # NoKeys
        acc == SelectSeq(snap.vouches, ok)
    IN  [j \in 1..Len(acc) |->
            [device_id |-> acc[j].device_id,
             session_keys |-> vouching_keys[<<snap.id, acc[j].device_id>>]]]

\* a report that leaves out the Unreachable vouches
RejectedOnly(snap) ==
    LET rej == SelectSeq(snap.vouches, LAMBDA v : v.status = "Rejected")
    IN  [j \in 1..Len(rej) |->
            [device_id |-> rej[j].device_id,
             reason |-> IF rej[j].reason = None THEN "Vouch rejected" ELSE rej[j].reason]]

Rejected_by(snap) ==
    LET rej == SelectSeq(snap.vouches,
                         LAMBDA v : v.status \in {"Rejected", "Unreachable"})
    IN  [j \in 1..Len(rej) |->
            [device_id |-> rej[j].device_id,
             reason |-> IF rej[j].reason = None THEN "Vouch rejected" ELSE rej[j].reason]]

\* lines 794-799: clone the session
FinRead(t) ==
    /\ tasks[t].pc = "fin_read"
    /\ LET session == vouching_sessions[tasks[t].sid]
       IN  SetTask(t, IF session.state = "NoVouching"
                      THEN Finish(t, "err", NoVouching)
                      ELSE [tasks[t] EXCEPT !.pc = "fin_send", !.snap = session])
    /\ UNCHANGED <<active_sessions, pairing_codes, vouching_sessions, vouching_keys,
                   queue_open, vouching_queue, cleanup_timers, proxy_config, registry,
                   connected, chan_open, net, pending, timers, stores, now, ticks, starts,
                   injected, persistence>>

\* lines 801-879: build the report from registry and key cache, send it to the vouchee
FinSend(t) ==
    /\ tasks[t].pc = "fin_send"
    /\ LET snap == tasks[t].snap
           node == get_node_id_for_device(Local, snap.vouchee_device_id)
           m == ProxyPairingComplete(node, NodeOf(Local), snap.id, snap.voucher_device_id,
                                     Accepted_by(snap), Rejected_by(snap))
       IN  IF node = None
           THEN /\ SetTask(t, [tasks[t] EXCEPT !.pc = "fin_purge"])
                /\ UNCHANGED net
           ELSE IF chan_open
           THEN /\ net' = Put(net, m)
                /\ SetTask(t, [tasks[t] EXCEPT !.pc = "fin_purge"])
           ELSE /\ SetTask(t, Finish(t, "err", NoVouching))
                /\ UNCHANGED net
    /\ UNCHANGED <<active_sessions, pairing_codes, vouching_sessions, vouching_keys,
                   queue_open, vouching_queue, cleanup_timers, proxy_config, registry,
                   connected, chan_open, pending, timers, stores, now, ticks, starts,
                   injected, persistence>>

\* lines 881-888: purge the session's cached keys, schedule the cleanup
FinPurge(t) ==
    /\ tasks[t].pc = "fin_purge"
    /\ vouching_keys' = [k \in DOMAIN vouching_keys |->
                            IF k[1] = tasks[t].sid THEN NoKeys ELSE vouching_keys[k]]
    /\ cleanup_timers' = cleanup_timers \cup
                            {[sid |-> tasks[t].sid, due |-> now + CleanupDelaySecs]}
    /\ SetTask(t, Return(t))
    /\ UNCHANGED <<active_sessions, pairing_codes, vouching_sessions, queue_open,
                   vouching_queue, proxy_config, registry, connected, chan_open, net,
                   pending, timers, stores, now, ticks, starts, injected, persistence>>

\* lines 895-913: the spawned cleanup, an hour after completion
schedule_vouching_cleanup(timer) ==
    /\ timer \in cleanup_timers
    /\ now >= timer.due
    /\ cleanup_timers' = cleanup_timers \ {timer}
    /\ vouching_sessions' = [vouching_sessions EXCEPT ![timer.sid] = NoVouching]
    /\ vouching_keys' = [k \in DOMAIN vouching_keys |->
                            IF k[1] = timer.sid THEN NoKeys ELSE vouching_keys[k]]
    /\ UNCHANGED <<active_sessions, pairing_codes, queue_open, vouching_queue,
                   proxy_config, registry, connected, chan_open, net, tasks, pending,
                   timers, stores, now, ticks, starts, injected, persistence>>

\* --------------------------------------------- voucher: pairing sessions
PairingSession(state, remote, pk, secret, created_at) ==
    [state |-> state, remote_device_id |-> remote, remote_device_info |-> remote,
     remote_public_key |-> pk, shared_secret |-> secret, created_at |-> created_at]

PkOf(d) == <<"pk", d>>
CodeSecret(sid) == <<"code", sid>>

\* lines 227-233: the snapshot that persistence.save_sessions writes
save_sessions_to_persistence(sessions) == sessions

\* lines 294-326: the session is inserted under its id whatever the map holds
\* there, then the code is stored and the sessions are saved
start_pairing_session_with_id(sid) ==
    /\ active_sessions' = [active_sessions EXCEPT ![sid] =
            PairingSession("WaitingForConnection", None, NoPk, NoSecret, now)]
    /\ pairing_codes' = [pairing_codes EXCEPT ![sid] = CodeSecret(sid)]
    /\ persistence' = save_sessions_to_persistence(active_sessions')
    /\ UNCHANGED <<vouching_sessions, vouching_keys, queue_open, vouching_queue,
                   cleanup_timers, proxy_config, registry, connected, chan_open, net,
                   tasks, pending, timers, stores, now, ticks, starts, injected>>

\* the user starts the one direct pairing of a behaviour: no session with this
\* id yet, and B not paired yet
StartPairing(sid) ==
    /\ active_sessions[sid] = NoSession
    /\ registry[Local][Vouchee] = NoPeer
    /\ start_pairing_session_with_id(sid)

\* lines 431-436
cancel_session(sid) ==
    /\ active_sessions[sid] # NoSession
    /\ active_sessions' = [active_sessions EXCEPT ![sid] = NoSession]
    /\ pairing_codes' = [pairing_codes EXCEPT ![sid] = NoSecret]
    /\ persistence' = save_sessions_to_persistence(active_sessions')
    /\ UNCHANGED <<vouching_sessions, vouching_keys, queue_open, vouching_queue,
                   cleanup_timers, proxy_config, registry, connected, chan_open, net,
                   tasks, pending, timers, stores, now, ticks, starts, injected>>

\* The joiner's PairingRequest reaches the initiator: the session records the
\* joiner's device info and public key and a challenge goes out.
handle_pairing_request(sid) ==
    /\ active_sessions[sid].state = "WaitingForConnection"
    /\ active_sessions' = [active_sessions EXCEPT ![sid] =
            PairingSession("ChallengeSent", Vouchee, PkOf(Vouchee), NoSecret,
                           active_sessions[sid].created_at)]
    /\ UNCHANGED <<pairing_codes, vouching_sessions, vouching_keys, queue_open,
                   vouching_queue, cleanup_timers, proxy_config, registry, connected,
                   chan_open, net, tasks, pending, timers, stores, now, ticks, starts,
                   injected, persistence>>

\* The completion hook of direct pairing: the initiator verified the joiner's
\* response, the session is Completed, both registries hold the other device as
\* Paired/Direct, and create_vouching_session is invoked for the new device.
PairingCompleted(t, sid) ==
    /\ t \in SpvSlots
    /\ tasks[t].pc \in {"idle", "done"}
    /\ active_sessions[sid].state = "ChallengeSent"
    /\ active_sessions' = [active_sessions EXCEPT ![sid] =
            PairingSession("Completed", Vouchee, PkOf(Vouchee), CodeSecret(sid),
                           active_sessions[sid].created_at)]
    /\ registry' = complete_pairing(
            complete_pairing(registry, Local, Vouchee, NoKeys, "Direct", None),
            Vouchee, Local, NoKeys, "Direct", None)
    /\ SetTask(t, [Idle EXCEPT !.pc = "cvs_insert", !.sid = sid, !.vouchee = Vouchee])
    /\ UNCHANGED <<pairing_codes, vouching_sessions, vouching_keys, queue_open,
                   vouching_queue, cleanup_timers, proxy_config, connected, chan_open,
                   net, pending, timers, stores, now, ticks, starts, injected, persistence>>

VouchingSession(sid, vouchee, state, vouches) ==
    [id |-> sid, vouchee_device_id |-> vouchee, voucher_device_id |-> Local,
     state |-> state, vouches |-> vouches]

\* the entry check without the test of the session's state
SpvErrorNoStateCheck(sid) ==
    LET ps == active_sessions[sid] IN
    IF ps = NoSession THEN "Pairing session not found"
    ELSE IF ps.remote_device_info = None THEN "Missing vouchee device info"
    ELSE IF ps.remote_public_key = NoPk THEN "Missing vouchee public key"
    ELSE IF ps.shared_secret = NoSecret /\ pairing_codes[sid] = NoSecret
         THEN "No pairing code found"
    ELSE None

\* start_proxy_vouching lines 989-1015: what the call needs from the pairing
\* session, or the error it returns
SpvError(sid) ==
    LET ps == active_sessions[sid] IN
    IF ps = NoSession THEN "Pairing session not found"
    ELSE IF ps.state # "Completed" THEN "Pairing session is not completed"
    ELSE IF ps.remote_device_info = None THEN "Missing vouchee device info"
    ELSE IF ps.remote_public_key = NoPk THEN "Missing vouchee public key"
    ELSE IF ps.shared_secret = NoSecret /\ pairing_codes[sid] = NoSecret
         THEN "No pairing code found"
    ELSE None

SpvEnter(t, sid, targets) ==
    LET ps == active_sessions[sid]
        rec == [Idle EXCEPT !.sid = sid, !.targets = targets]
    IN  IF SpvError(sid) # None
        THEN [rec EXCEPT !.pc = "done", !.result = SpvError(sid)]
        ELSE [rec EXCEPT !.pc = "spv_seed", !.vouchee = ps.remote_device_info,
                         !.pk = ps.remote_public_key,
                         !.secret = IF ps.shared_secret # NoSecret THEN ps.shared_secret
                                    ELSE pairing_codes[sid]]

\* create_vouching_session lines 926-940: the session is inserted as Pending
CvsInsert(t) ==
    /\ tasks[t].pc = "cvs_insert"
    /\ vouching_sessions' = [vouching_sessions EXCEPT ![tasks[t].sid] =
            VouchingSession(tasks[t].sid, tasks[t].vouchee, "Pending", <<>>)]
    /\ SetTask(t, [tasks[t] EXCEPT !.pc = "cvs_auto"])
    /\ UNCHANGED <<active_sessions, pairing_codes, vouching_keys, queue_open,
                   vouching_queue, cleanup_timers, proxy_config, registry, connected,
                   chan_open, net, pending, timers, stores, now, ticks, starts, injected, persistence>>

\* the paired devices in some enumeration order
Orderings(S) == {q \in [1..Cardinality(S) -> S] : SeqToSet(q) = S}

\* create_vouching_session lines 952-981: auto vouch to every other paired device
CvsAuto(t) ==
    /\ tasks[t].pc = "cvs_auto"
    /\ LET sid == tasks[t].sid
           ids == {d \in get_paired_devices(Local) : d # Local /\ d # tasks[t].vouchee}
       IN  IF proxy_config[Local].auto_vouch_to_all /\ ids # {}
           THEN \E targets \in Orderings(ids) :
                    LET rec == SpvEnter(t, sid, targets) IN
                    SetTask(t, IF rec.pc = "done" THEN Finish(t, "ok", NoVouching) ELSE rec)
           ELSE SetTask(t, Finish(t, "ok", NoVouching))
    /\ UNCHANGED <<active_sessions, pairing_codes, vouching_sessions, vouching_keys,
                   queue_open, vouching_queue, cleanup_timers, proxy_config, registry,
                   connected, chan_open, net, pending, timers, stores, now, ticks, starts,
                   injected, persistence>>

\* ------------------------------------------ voucher: start_proxy_vouching
\* the call (PairVouchAction::execute) and lines 989-1015
SpvCall(t, sid, targets) ==
    /\ t \in SpvSlots
    /\ tasks[t].pc \in {"idle", "done"}
    /\ starts < MaxStarts
    /\ starts' = starts + 1
    /\ SetTask(t, SpvEnter(t, sid, targets))
    /\ UNCHANGED <<active_sessions, pairing_codes, vouching_sessions, vouching_keys,
                   queue_open, vouching_queue, cleanup_timers, proxy_config, registry,
                   connected, chan_open, net, pending, timers, stores, now, ticks,
                   injected, persistence>>

InitialVouches(targets) ==
    [j \in 1..Len(targets) |->
        [device_id |-> targets[j], status |-> "Selected", reason |-> None]]

\* lines 1017-1067: the session is (re)seeded and set InProgress
SpvSeed(t) ==
    /\ tasks[t].pc = "spv_seed"
    /\ LET sid == tasks[t].sid
           entry == IF vouching_sessions[sid] = NoVouching
                    THEN VouchingSession(sid, tasks[t].vouchee, "Pending", <<>>)
                    ELSE vouching_sessions[sid]
       IN  vouching_sessions' = [vouching_sessions EXCEPT ![sid] =
               [entry EXCEPT !.state = "InProgress",
                             !.vouches = InitialVouches(tasks[t].targets)]]
    /\ SetTask(t, [tasks[t] EXCEPT !.pc = IF tasks[t].targets = <<>>
                                         THEN "spv_empty" ELSE "spv_loop",
                                   !.i = 1])
    /\ UNCHANGED <<active_sessions, pairing_codes, vouching_keys, queue_open,
                   vouching_queue, cleanup_timers, proxy_config, registry, connected,
                   chan_open, net, pending, timers, stores, now, ticks, starts, injected, persistence>>

\* lines 1069-1080: no targets, complete at once and finalize
SpvEmpty(t) ==
    /\ tasks[t].pc = "spv_empty"
    /\ LET sid == tasks[t].sid
           session == vouching_sessions[sid]
           done == IF session = NoVouching THEN session
                   ELSE [session EXCEPT !.state = "Completed"]
       IN  /\ vouching_sessions' = [vouching_sessions EXCEPT ![sid] = done]
           /\ SetTask(t, [tasks[t] EXCEPT !.pc = "fin_read", !.ret = "spv_ok",
                            !.retval = IF session = NoVouching
                                       THEN VouchingSession(sid, tasks[t].vouchee,
                                                            "InProgress", <<>>)
                                       ELSE done])
    /\ UNCHANGED <<active_sessions, pairing_codes, vouching_keys, queue_open,
                   vouching_queue, cleanup_timers, proxy_config, registry, connected,
                   chan_open, net, pending, timers, stores, now, ticks, starts, injected, persistence>>

\* the target test that forgets the vouchee
InvalidVouchTargetVoucherOnly(rec, target) == target = Local

\* line 1083: the voucher and the vouchee are no targets
InvalidVouchTarget(rec, target) == target = Local \/ target = rec.vouchee

\* lines 1082-1120 and 1218-1224: the next target, or the return
SpvLoop(t) ==
    /\ tasks[t].pc = "spv_loop"
    /\ LET rec == tasks[t]
           sid == rec.sid
       IN  IF rec.i > Len(rec.targets)
           THEN SetTask(t, IF vouching_sessions[sid] = NoVouching
                           THEN Finish(t, "err", NoVouching)
                           ELSE Finish(t, "ok", vouching_sessions[sid]))
           ELSE LET target == rec.targets[rec.i] IN
                IF InvalidVouchTarget(rec, target)
                THEN SetTask(t, CallUvs(rec, target, "Rejected",
                                        "Invalid vouch target", "spv_loop"))
                ELSE IF ~HasInfo(Local, target)
                THEN SetTask(t, CallUvs(rec, target, "Rejected",
                                        "Target device not paired", "spv_loop"))
                ELSE SetTask(t, [rec EXCEPT !.pc = "spv_keys", !.ts = now])
    /\ UNCHANGED <<active_sessions, pairing_codes, vouching_sessions, vouching_keys,
                   queue_open, vouching_queue, cleanup_timers, proxy_config, registry,
                   connected, chan_open, net, pending, timers, stores, now, ticks, starts,
                   injected, persistence>>

SpvDerived(rec) ==
    derive_proxy_session_keys(Local, rec.targets[rec.i], rec.vouchee, rec.pk, rec.secret)

SpvSignature(rec) ==
    sign_vouch_payload(NodeOf(Local),
                       build_vouch_payload(rec.sid, rec.vouchee, rec.pk, rec.ts))

\* lines 1138-1141: cache the vouchee's view of the derived keys
SpvKeys(t) ==
    /\ tasks[t].pc = "spv_keys"
    /\ vouching_keys' = [vouching_keys EXCEPT
            ![<<tasks[t].sid, tasks[t].targets[tasks[t].i]>>] =
                SpvDerived(tasks[t]).vouchee_keys]
    /\ SetTask(t, [tasks[t] EXCEPT !.pc = "spv_upsert"])
    /\ UNCHANGED <<active_sessions, pairing_codes, vouching_sessions, queue_open,
                   vouching_queue, cleanup_timers, proxy_config, registry, connected,
                   chan_open, net, pending, timers, stores, now, ticks, starts, injected, persistence>>

SpvQueueEntry(rec) ==
    [session_id |-> rec.sid, target_device_id |-> rec.targets[rec.i],
     voucher_device_id |-> Local, vouchee_device_id |-> rec.vouchee,
     vouchee_public_key |-> rec.pk, voucher_signature |-> SpvSignature(rec),
     proxied_session_keys |-> SpvDerived(rec).receiver_keys,
     created_at |-> rec.ts, expires_at |-> rec.ts + QueueExpirySecs,
     status |-> "Queued", retry_count |-> 0, last_attempt_at |-> NoTime]

\* lines 1143-1162: write the queue entry
SpvUpsert(t) ==
    /\ tasks[t].pc = "spv_upsert"
    /\ vouching_queue' = IF queue_open
                         THEN upsert_entry(vouching_queue, SpvQueueEntry(tasks[t]))
                         ELSE vouching_queue
    /\ SetTask(t, [tasks[t] EXCEPT !.pc = "spv_send"])
    /\ UNCHANGED <<active_sessions, pairing_codes, vouching_sessions, vouching_keys,
                   queue_open, cleanup_timers, proxy_config, registry, connected,
                   chan_open, net, pending, timers, stores, now, ticks, starts, injected, persistence>>

\* lines 1164-1215: send now if the target is connected
SpvSend(t) ==
    /\ tasks[t].pc = "spv_send"
    /\ LET rec == tasks[t]
           target == rec.targets[rec.i]
           node == get_node_id_for_device(Local, target)
           m == ProxyPairingRequest(node, NodeOf(Local), rec.sid, rec.vouchee, rec.pk,
                                    Local, SpvSignature(rec), rec.ts,
                                    SpvDerived(rec).receiver_keys)
       IN  IF is_node_connected(target) /\ node # None /\ chan_open
           THEN /\ net' = Put(net, m)
                /\ SetTask(t, [rec EXCEPT !.pc = "spv_qupdate"])
           ELSE /\ UNCHANGED net
                /\ SetTask(t, CallUvs(rec, target, "Queued", None, "spv_loop"))
    /\ UNCHANGED <<active_sessions, pairing_codes, vouching_sessions, vouching_keys,
                   queue_open, vouching_queue, cleanup_timers, proxy_config, registry,
                   connected, chan_open, pending, timers, stores, now, ticks, starts,
                   injected, persistence>>

\* lines 1197-1211: the request went out, the entry becomes Waiting
SpvQupdate(t) ==
    /\ tasks[t].pc = "spv_qupdate"
    /\ vouching_queue' =
          IF queue_open
          THEN update_status(vouching_queue, tasks[t].sid, tasks[t].targets[tasks[t].i],
                             "Waiting", 1, now)
          ELSE vouching_queue
    /\ SetTask(t, CallUvs(tasks[t], tasks[t].targets[tasks[t].i], "Waiting", None,
                          "spv_loop"))
    /\ UNCHANGED <<active_sessions, pairing_codes, vouching_sessions, vouching_keys,
                   queue_open, cleanup_timers, proxy_config, registry, connected,
                   chan_open, net, pending, timers, stores, now, ticks, starts, injected, persistence>>

\* ------------------------------- voucher: handle_proxy_pairing_response
\* lines 1549-1562: a response for an unknown session is logged and ignored
HprReceive(t, m) ==
    /\ t \in RespSlots
    /\ tasks[t].pc = "idle"
    /\ BagIn(m, net)
    /\ m.type = "ProxyPairingResponse"
    /\ m.to = NodeOf(Local)
    /\ net' = Take(net, m)
    /\ SetTask(t, IF vouching_sessions[m.session_id] = NoVouching
                  THEN Idle
                  ELSE [Idle EXCEPT !.pc = IF m.accepted THEN "hpr_qrm" ELSE "hpr_keys",
                                    !.sid = m.session_id, !.msg = m])
    /\ UNCHANGED <<active_sessions, pairing_codes, vouching_sessions, vouching_keys,
                   queue_open, vouching_queue, cleanup_timers, proxy_config, registry,
                   connected, chan_open, pending, timers, stores, now, ticks,
                   starts, injected, persistence>>

\* lines 1564-1567: a rejection drops the cached keys
HprKeys(t) ==
    /\ tasks[t].pc = "hpr_keys"
    /\ vouching_keys' = [vouching_keys EXCEPT
            ![<<tasks[t].sid, tasks[t].msg.accepting_device_id>>] = NoKeys]
    /\ SetTask(t, [tasks[t] EXCEPT !.pc = "hpr_qrm"])
    /\ UNCHANGED <<active_sessions, pairing_codes, vouching_sessions, queue_open,
                   vouching_queue, cleanup_timers, proxy_config, registry, connected,
                   chan_open, net, pending, timers, stores, now, ticks, starts,
                   injected, persistence>>

\* lines 1569-1575: delete the queue entry, then set the vouch
HprQrm(t) ==
    /\ tasks[t].pc = "hpr_qrm"
    /\ LET m == tasks[t].msg IN
       /\ vouching_queue' = IF queue_open
                            THEN remove_entry(vouching_queue, tasks[t].sid,
                                              m.accepting_device_id)
                            ELSE vouching_queue
       /\ SetTask(t, CallUvs(tasks[t], m.accepting_device_id,
                             IF m.accepted THEN "Accepted" ELSE "Rejected",
                             m.reason, "end"))
    /\ UNCHANGED <<active_sessions, pairing_codes, vouching_sessions, vouching_keys,
                   queue_open, cleanup_timers, proxy_config, registry, connected,
                   chan_open, net, pending, timers, stores, now, ticks, starts,
                   injected, persistence>>

\* ------------------------------------ voucher: process_vouching_queue
\* lines 1621-1628: one pass works from a snapshot of the queue and of the clock
DrainStart ==
    /\ tasks["drain"].pc = "idle"
    /\ queue_open
    /\ vouching_queue # <<>>
    /\ SetTask("drain", [Idle EXCEPT !.pc = "dr_loop", !.i = 1, !.ts = now,
                                     !.entries = list_entries(vouching_queue)])
    /\ UNCHANGED <<active_sessions, pairing_codes, vouching_sessions, vouching_keys,
                   queue_open, vouching_queue, cleanup_timers, proxy_config, registry,
                   connected, chan_open, net, pending, timers, stores, now, ticks,
                   starts, injected, persistence>>

\* a pass that lets an entry live through the instant of its expires_at
DrainBranchExpiresLate(e, passNow) ==
    IF vouching_sessions[e.session_id] = NoVouching THEN "gone"
    ELSE IF e.expires_at < passNow THEN "Vouch expired"
    ELSE IF e.retry_count >= proxy_config[Local].vouch_queue_retry_limit
         THEN "Vouch retry limit exceeded"
    ELSE IF e.status = "Waiting"
         THEN IF /\ e.last_attempt_at # NoTime
                 /\ passNow - e.last_attempt_at > proxy_config[Local].vouch_response_timeout
              THEN "Proxy response timeout"
              ELSE "skip"
    ELSE "send"

\* lines 1630-1687: what the pass does with the entry, decided from the snapshot
DrainBranch(e, passNow) ==
    IF vouching_sessions[e.session_id] = NoVouching THEN "gone"
    ELSE IF e.expires_at <= passNow THEN "Vouch expired"
    ELSE IF e.retry_count >= proxy_config[Local].vouch_queue_retry_limit
         THEN "Vouch retry limit exceeded"
    ELSE IF e.status = "Waiting"
         THEN IF /\ e.last_attempt_at # NoTime
                 /\ passNow - e.last_attempt_at > proxy_config[Local].vouch_response_timeout
              THEN "Proxy response timeout"
              ELSE "skip"
    ELSE "send"

DrainLoop ==
    /\ tasks["drain"].pc = "dr_loop"
    /\ LET rec == tasks["drain"] IN
       IF rec.i > Len(rec.entries)
       THEN SetTask("drain", Idle)
       ELSE LET e == rec.entries[rec.i]
                branch == DrainBranch(e, rec.ts)
            IN  SetTask("drain",
                    CASE branch = "skip" -> [rec EXCEPT !.i = @ + 1]
                      [] branch = "send" -> [rec EXCEPT !.pc = "dr_send", !.sid = e.session_id]
                      [] OTHER -> [rec EXCEPT !.pc = "dr_rm", !.sid = e.session_id,
                                              !.result = branch])
    /\ UNCHANGED <<active_sessions, pairing_codes, vouching_sessions, vouching_keys,
                   queue_open, vouching_queue, cleanup_timers, proxy_config, registry,
                   connected, chan_open, net, pending, timers, stores, now, ticks,
                   starts, injected, persistence>>

\* the remove_entry of lines 1632, 1639, 1653 and 1670, and what follows it
DrainRemove ==
    /\ tasks["drain"].pc = "dr_rm"
    /\ LET rec == tasks["drain"]
           e == rec.entries[rec.i]
       IN  /\ vouching_queue' = remove_entry(vouching_queue, e.session_id,
                                             e.target_device_id)
           /\ SetTask("drain",
                 IF rec.result = "gone"
                 THEN [rec EXCEPT !.pc = "dr_loop", !.i = @ + 1, !.result = None]
                 ELSE CallUvs([rec EXCEPT !.result = None], e.target_device_id,
                              "Unreachable", rec.result, "dr_loop"))
    /\ UNCHANGED <<active_sessions, pairing_codes, vouching_sessions, vouching_keys,
                   queue_open, cleanup_timers, proxy_config, registry, connected,
                   chan_open, net, pending, timers, stores, now, ticks, starts,
                   injected, persistence>>

\* lines 1689-1748: resend a Queued entry to a connected target
DrainSend ==
    /\ tasks["drain"].pc = "dr_send"
    /\ LET rec == tasks["drain"]
           e == rec.entries[rec.i]
           node == get_node_id_for_device(Local, e.target_device_id)
           payload == build_vouch_payload(e.session_id, e.vouchee_device_id,
                                          e.vouchee_public_key, now)
           m == ProxyPairingRequest(node, NodeOf(Local), e.session_id,
                                    e.vouchee_device_id, e.vouchee_public_key,
                                    e.voucher_device_id,
                                    sign_vouch_payload(NodeOf(Local), payload), now,
                                    e.proxied_session_keys)
       IN  IF ~is_node_connected(e.target_device_id) \/ node = None
           THEN /\ SetTask("drain", [rec EXCEPT !.pc = "dr_loop", !.i = @ + 1])
                /\ UNCHANGED net
           ELSE IF chan_open
           THEN /\ net' = Put(net, m)
                /\ SetTask("drain", [rec EXCEPT !.pc = "dr_qupd", !.result = "sent"])
           ELSE /\ UNCHANGED net
                /\ SetTask("drain", [rec EXCEPT !.pc = "dr_qupd", !.result = "failed"])
    /\ UNCHANGED <<active_sessions, pairing_codes, vouching_sessions, vouching_keys,
                   queue_open, vouching_queue, cleanup_timers, proxy_config, registry,
                   connected, chan_open, pending, timers, stores, now, ticks,
                   starts, injected, persistence>>

\* lines 1738-1766: record the attempt
DrainQupdate ==
    /\ tasks["drain"].pc = "dr_qupd"
    /\ LET rec == tasks["drain"]
           e == rec.entries[rec.i]
           sent == rec.result = "sent"
       IN  /\ vouching_queue' = update_status(vouching_queue, e.session_id,
                                    e.target_device_id,
                                    IF sent THEN "Waiting" ELSE "Queued",
                                    e.retry_count + 1, rec.ts)
           /\ SetTask("drain",
                 IF sent
                 THEN CallUvs([rec EXCEPT !.result = None], e.target_device_id,
                              "Waiting", None, "dr_loop")
                 ELSE [rec EXCEPT !.pc = "dr_loop", !.i = @ + 1, !.result = None])
    /\ UNCHANGED <<active_sessions, pairing_codes, vouching_sessions, vouching_keys,
                   queue_open, cleanup_timers, proxy_config, registry, connected,
                   chan_open, net, pending, timers, stores, now, ticks, starts,
                   injected, persistence>>

\* ------------------------------------ target: handle_proxy_pairing_request
MalformedSignature ==
    [signer |-> "malformed", payload |-> build_vouch_payload(None, None, NoPk, NoTime)]

\* PairingSecurity::validate_public_key / validate_signature: well-formed bytes
validate_public_key(pk) == Len(pk) = 2
validate_signature(sig) == sig.signer # "malformed"

\* lines 638-660: Err for malformed bytes, else whether the signature is the
\* given key's signature of the payload
verify_vouch_signature(payload, sig, public_key) ==
    IF ~validate_signature(sig) THEN "Err"
    ELSE IF sig.signer = public_key /\ sig.payload = payload THEN "true" ELSE "false"

NoPending == [state |-> "none"]

\* what is true of a request when the target handles it
RequestFacts(d, m) ==
    LET voucher == registry[d][m.voucher_device_id] IN
    [sender_is_voucher |-> voucher.state = "Paired" /\ voucher.node_id = m.from,
     voucher_trusted_direct |-> /\ voucher.state = "Paired"
                                /\ voucher.persisted
                                /\ voucher.trust_level = "Trusted"
                                /\ voucher.pairing_type = "Direct",
     vouchee_unknown |-> registry[d][m.vouchee_device_id] = NoPeer,
     signed_by_voucher |-> /\ validate_signature(m.voucher_signature)
                           /\ m.voucher_signature.signer = NodeOf(m.voucher_device_id)
                           /\ m.voucher_signature.payload =
                                build_vouch_payload(m.session_id, m.vouchee_device_id,
                                                    m.vouchee_public_key, m.timestamp),
     fresh |-> now - m.timestamp <= proxy_config[d].vouch_signature_max_age,
     keys_distinct |-> m.proxied_session_keys.send_key # m.proxied_session_keys.receive_key,
     key_well_formed |-> validate_public_key(m.vouchee_public_key)]

\* lines 1298-1425: the verdict on a request: "ok", "Err" (the handler returns an
\* error and the stream handler closes the stream), or the reason of the rejection
Verdict(d, m) ==
    LET voucher_node_id == get_node_id_for_device(d, m.voucher_device_id)
        payload == build_vouch_payload(m.session_id, m.vouchee_device_id,
                                       m.vouchee_public_key, m.timestamp)
        verified == verify_vouch_signature(payload, m.voucher_signature, m.from)
        persisted_voucher == registry[d][m.voucher_device_id]
    IN  IF voucher_node_id # None /\ voucher_node_id # m.from THEN "Voucher node mismatch"
        ELSE IF ~HasInfo(d, m.voucher_device_id) THEN "Voucher not paired"
        ELSE IF ~validate_public_key(m.vouchee_public_key) THEN "Err"
        ELSE IF verified = "Err" THEN "Err"
        ELSE IF verified = "false" THEN "Invalid voucher signature"
        ELSE IF now - m.timestamp > proxy_config[d].vouch_signature_max_age
             THEN "Vouch signature expired"
        ELSE IF get_device_state(d, m.vouchee_device_id) # NoPeer
             THEN "Device already paired"
        ELSE IF ~persisted_voucher.persisted THEN "Voucher not in persistence"
        ELSE IF persisted_voucher.trust_level # "Trusted"
                \/ persisted_voucher.pairing_type # "Direct"
             THEN "Voucher not trusted for proxy pairing"
        ELSE IF m.proxied_session_keys.send_key = m.proxied_session_keys.receive_key
             THEN "Invalid session keys"
        ELSE "ok"

\* lines 1525-1540
send_proxy_pairing_rejection(d, m, reason) ==
    ProxyPairingResponse(m.from, NodeOf(d), m.session_id, d, FALSE, reason)

\* lines 1285-1523: a ProxyPairingRequest is validated; a rejected one is answered
\* with the reason, an accepted one is stored at once (auto-accept) or stashed
\* with a confirmation timer
handle_proxy_pairing_request(d, m) ==
    /\ d \in TargetDevices
    /\ BagIn(m, net)
    /\ m.type = "ProxyPairingRequest"
    /\ m.to = NodeOf(d)
    /\ LET verdict == Verdict(d, m) IN
       CASE verdict = "Err" ->
                /\ net' = Take(net, m)
                /\ UNCHANGED <<registry, pending, timers, stores>>
         [] verdict = "ok" /\ proxy_config[d].auto_accept_vouched ->
                /\ registry' = complete_pairing(registry, d, m.vouchee_device_id,
                                                m.proxied_session_keys, "Proxied",
                                                m.voucher_device_id)
                /\ net' = Put(Take(net, m),
                              ProxyPairingResponse(m.from, NodeOf(d), m.session_id, d,
                                                   TRUE, None))
                /\ stores' = stores \cup {[target |-> d, vouchee |-> m.vouchee_device_id,
                                           facts |-> RequestFacts(d, m)]}
                /\ UNCHANGED <<pending, timers>>
         [] verdict = "ok" /\ ~proxy_config[d].auto_accept_vouched ->
                /\ pending' = [pending EXCEPT ![d][m.session_id] =
                        [state |-> "pending", voucher_device_id |-> m.voucher_device_id,
                         vouchee_device_id |-> m.vouchee_device_id,
                         proxied_session_keys |-> m.proxied_session_keys,
                         created_at |-> now, facts |-> RequestFacts(d, m)]]
                /\ timers' = timers \cup
                        {[target |-> d, sid |-> m.session_id,
                          due |-> now + proxy_config[d].vouch_response_timeout]}
                /\ net' = Take(net, m)
                /\ UNCHANGED <<registry, stores>>
         [] OTHER ->
                /\ net' = Put(Take(net, m), send_proxy_pairing_rejection(d, m, verdict))
                /\ UNCHANGED <<registry, pending, timers, stores>>
    /\ UNCHANGED <<active_sessions, pairing_codes, vouching_sessions, vouching_keys,
                   queue_open, vouching_queue, cleanup_timers, proxy_config, connected,
                   chan_open, tasks, now, ticks, starts, injected, persistence>>

\* lines 1227-1283: the user's decision on a stashed request
confirm_proxy_pairing(d, sid, accepted) ==
    /\ d \in TargetDevices
    /\ pending[d][sid] # NoPending
    /\ LET p == pending[d][sid]
           voucher_node_id == get_node_id_for_device(d, p.voucher_device_id)
           response == ProxyPairingResponse(
                           voucher_node_id, NodeOf(d), sid, d, accepted,
                           IF accepted THEN None ELSE "User rejected proxy pairing")
       IN  /\ pending' = [pending EXCEPT ![d][sid] = NoPending]
           /\ registry' = IF accepted
                          THEN complete_pairing(registry, d, p.vouchee_device_id,
                                                p.proxied_session_keys, "Proxied",
                                                p.voucher_device_id)
                          ELSE registry
           /\ stores' = IF accepted
                        THEN stores \cup {[target |-> d, vouchee |-> p.vouchee_device_id,
                                           facts |-> p.facts]}
                        ELSE stores
           /\ net' = IF voucher_node_id # None THEN Put(net, response) ELSE net
    /\ UNCHANGED <<active_sessions, pairing_codes, vouching_sessions, vouching_keys,
                   queue_open, vouching_queue, cleanup_timers, proxy_config, connected,
                   chan_open, tasks, timers, now, ticks, starts, injected, persistence>>

\* a timer that answers the voucher whether or not the confirmation is still
\* pending
TimerAlwaysResponds(timer) ==
    /\ timer \in timers
    /\ now >= timer.due
    /\ timers' = timers \ {timer}
    /\ pending' = [pending EXCEPT ![timer.target][timer.sid] = NoPending]
    /\ net' = Put(net, ProxyPairingResponse(NodeOf(Local), NodeOf(timer.target),
                                            timer.sid, timer.target, FALSE,
                                            "Proxy confirmation timed out"))
    /\ UNCHANGED <<active_sessions, pairing_codes, vouching_sessions, vouching_keys,
                   queue_open, vouching_queue, cleanup_timers, proxy_config, registry,
                   connected, chan_open, tasks, stores, now, ticks, starts,
                   injected, persistence>>

\* lines 1491-1520: the timer armed when a request was stashed
ConfirmationTimer(timer) ==
    /\ timer \in timers
    /\ now >= timer.due
    /\ timers' = timers \ {timer}
    /\ LET d == timer.target
           p == pending[d][timer.sid]
           node == IF p = NoPending THEN None
                   ELSE get_node_id_for_device(d, p.voucher_device_id)
       IN  /\ pending' = [pending EXCEPT ![d][timer.sid] = NoPending]
           /\ net' = IF node # None
                     THEN Put(net, ProxyPairingResponse(node, NodeOf(d), timer.sid, d,
                                        FALSE, "Proxy confirmation timed out"))
                     ELSE net
    /\ UNCHANGED <<active_sessions, pairing_codes, vouching_sessions, vouching_keys,
                   queue_open, vouching_queue, cleanup_timers, proxy_config, registry,
                   connected, chan_open, tasks, stores, now, ticks, starts,
                   injected, persistence>>

\* --------------------------------- vouchee: handle_proxy_pairing_complete
RECURSIVE StoreAccepted(_, _, _, _)
StoreAccepted(reg, d, accepted_by, voucher) ==
    IF accepted_by = <<>> THEN reg
    ELSE StoreAccepted(
            complete_pairing(reg, d, Head(accepted_by).device_id,
                             Head(accepted_by).session_keys, "Proxied", voucher),
            d, Tail(accepted_by), voucher)

\* lines 1580-1618
handle_proxy_pairing_complete(d, m) ==
    /\ BagIn(m, net)
    /\ m.type = "ProxyPairingComplete"
    /\ m.to = NodeOf(d)
    /\ net' = Take(net, m)
    /\ registry' = StoreAccepted(registry, d, m.accepted_by, m.voucher_device_id)
    /\ UNCHANGED <<active_sessions, pairing_codes, vouching_sessions, vouching_keys,
                   queue_open, vouching_queue, cleanup_timers, proxy_config, connected,
                   chan_open, tasks, pending, timers, stores, now, ticks, starts,
                   injected, persistence>>

\* ------------------------------------------------------------ environment
\* lines 205-210
init_vouching_queue ==
    /\ ~queue_open
    /\ queue_open' = TRUE
    /\ UNCHANGED <<active_sessions, pairing_codes, vouching_sessions, vouching_keys,
                   vouching_queue, cleanup_timers, proxy_config, registry, connected,
                   chan_open, net, tasks, pending, timers, stores, now, ticks,
                   starts, injected, persistence>>

\* a paired device connects to or disconnects from the voucher's endpoint
Connect(p) ==
    /\ p \in TargetDevices \ connected
    /\ HasInfo(Local, p)
    /\ connected' = connected \cup {p}
    /\ UNCHANGED <<active_sessions, pairing_codes, vouching_sessions, vouching_keys,
                   queue_open, vouching_queue, cleanup_timers, proxy_config, registry,
                   chan_open, net, tasks, pending, timers, stores, now, ticks,
                   starts, injected, persistence>>

Disconnect(p) ==
    /\ p \in connected
    /\ connected' = connected \ {p}
    /\ UNCHANGED <<active_sessions, pairing_codes, vouching_sessions, vouching_keys,
                   queue_open, vouching_queue, cleanup_timers, proxy_config, registry,
                   chan_open, net, tasks, pending, timers, stores, now, ticks,
                   starts, injected, persistence>>

\* the event loop's command receiver is dropped (shutdown)
CloseChannel ==
    /\ chan_open
    /\ chan_open' = FALSE
    /\ UNCHANGED <<active_sessions, pairing_codes, vouching_sessions, vouching_keys,
                   queue_open, vouching_queue, cleanup_timers, proxy_config, registry,
                   connected, net, tasks, pending, timers, stores, now, ticks,
                   starts, injected, persistence>>

Tick(d) ==
    /\ ticks < MaxTicks
    /\ d \in TickSteps
    /\ now' = now + d
    /\ ticks' = ticks + 1
    /\ UNCHANGED <<active_sessions, pairing_codes, vouching_sessions, vouching_keys,
                   queue_open, vouching_queue, cleanup_timers, proxy_config, registry,
                   connected, chan_open, net, tasks, pending, timers, stores,
                   starts, injected, persistence>>

\* ------------------------------------------------------------------- Init
\* ProxyPairingConfig::default, with the two flags as configured
Config(auto_accept, auto_vouch) ==
    [auto_accept_vouched |-> auto_accept, auto_vouch_to_all |-> auto_vouch,
     vouch_signature_max_age |-> DefaultSignatureMaxAge,
     vouch_response_timeout |-> DefaultResponseTimeout,
     vouch_queue_retry_limit |-> DefaultRetryLimit]

DirectPeer(p) == PairedRecord("Direct", "Trusted", None, NoKeys, NodeOf(p), TRUE)

\* A and C are directly paired
Registry0 ==
    [d \in Devices |-> [p \in Devices |->
        IF (d = Local /\ p \in TargetDevices) \/ (p = Local /\ d \in TargetDevices)
        THEN DirectPeer(p) ELSE NoPeer]]

\* PairingProtocolHandler::new on the voucher
VoucherInit(conn, qopen) ==
    /\ active_sessions = [sid \in SessionIds |-> NoSession]
    /\ pairing_codes = [sid \in SessionIds |-> NoSecret]
    /\ vouching_sessions = [sid \in SessionIds |-> NoVouching]
    /\ vouching_keys = [k \in SessionIds \X Devices |-> NoKeys]
    /\ queue_open = qopen
    /\ vouching_queue = <<>>
    /\ cleanup_timers = {}
    /\ connected = conn
    /\ chan_open = TRUE
    /\ tasks = [t \in TaskIds |-> Idle]
    /\ starts = 0
    /\ persistence = [sid \in SessionIds |-> NoSession]

TargetInit ==
    /\ pending = [d \in TargetDevices |-> [sid \in SessionIds |-> NoPending]]
    /\ timers = {}
    /\ stores = {}

ClockInit ==
    /\ net = EmptyBag
    /\ now = 0
    /\ ticks = 0
    /\ injected = 0

\* the default configuration: targets accept vouched devices, the voucher vouches
\* on request
Init ==
    /\ VoucherInit({}, FALSE)
    /\ TargetInit
    /\ ClockInit
    /\ proxy_config = [d \in Devices |-> Config(TRUE, FALSE)]
    /\ registry = Registry0

\* the three-device configuration: the voucher vouches new devices to every
\* paired device, C is online
InitAuto ==
    /\ VoucherInit(TargetDevices, TRUE)
    /\ TargetInit
    /\ ClockInit
    /\ proxy_config = [d \in Devices |-> Config(TRUE, d = Local)]
    /\ registry = Registry0

\* ------------------------------------------------------------------- Next
VoucherStep(t) ==
    \/ CvsInsert(t)
    \/ CvsAuto(t)
    \/ SpvSeed(t)
    \/ SpvLoop(t)
    \/ SpvKeys(t)
    \/ SpvUpsert(t)
    \/ SpvSend(t)
    \/ SpvQupdate(t)
    \/ HprKeys(t)
    \/ HprQrm(t)
    \/ UvsKeys(t)
    \/ UvsWrite(t)
    \/ FinRead(t)
    \/ FinSend(t)
    \/ FinPurge(t)

DrainStep == DrainStart \/ DrainLoop \/ DrainRemove \/ DrainSend \/ DrainQupdate

Messages == BagToSet(net)

TargetLists == SeqsUpTo(Devices, MaxTargets)

\* the voucher with its targets and its vouchee, in the default configuration
Next ==
    \/ \E sid \in SessionIds : StartPairing(sid)
    \/ \E sid \in SessionIds : handle_pairing_request(sid)
    \/ \E sid \in SessionIds : cancel_session(sid)
    \/ \E t \in SpvSlots, sid \in SessionIds : PairingCompleted(t, sid)
    \/ \E t \in SpvSlots, sid \in SessionIds, targets \in TargetLists :
          SpvCall(t, sid, targets)
    \/ \E t \in SpvSlots : SpvEmpty(t)
    \/ \E t \in TaskIds : VoucherStep(t)
    \/ \E t \in RespSlots, m \in Messages : HprReceive(t, m)
    \/ DrainStep
    \/ \E timer \in cleanup_timers : schedule_vouching_cleanup(timer)
    \/ \E d \in TargetDevices, m \in Messages : handle_proxy_pairing_request(d, m)
    \/ \E m \in Messages : handle_proxy_pairing_complete(Vouchee, m)
    \/ init_vouching_queue
    \/ \E p \in TargetDevices : Connect(p)
    \/ \E p \in TargetDevices : Disconnect(p)
    \/ CloseChannel
    \/ \E d \in TickSteps : Tick(d)

Spec == Init /\ [][Next]_vars

\* the three-device configuration left to itself: no time passes, so no queue
\* entry expires or times out
NextLive ==
    \/ \E sid \in SessionIds : StartPairing(sid)
    \/ \E sid \in SessionIds : handle_pairing_request(sid)
    \/ \E t \in SpvSlots, sid \in SessionIds : PairingCompleted(t, sid)
    \/ \E t \in TaskIds : VoucherStep(t)
    \/ \E t \in RespSlots, m \in Messages : HprReceive(t, m)
    \/ DrainStart \/ DrainLoop \/ DrainSend \/ DrainQupdate
    \/ \E d \in TargetDevices, m \in Messages : handle_proxy_pairing_request(d, m)
    \/ \E m \in Messages : handle_proxy_pairing_complete(Vouchee, m)

\* every spawned task keeps running and every message in flight is delivered
Fairness ==
    /\ \A t \in TaskIds : WF_vars(VoucherStep(t))
    /\ WF_vars(\E sid \in SessionIds : StartPairing(sid))
    /\ WF_vars(\E sid \in SessionIds : handle_pairing_request(sid))
    /\ WF_vars(\E t \in SpvSlots, sid \in SessionIds : PairingCompleted(t, sid))
    /\ WF_vars(\E t \in RespSlots, m \in Messages : HprReceive(t, m))
    /\ WF_vars(DrainStart \/ DrainLoop \/ DrainSend \/ DrainQupdate)
    /\ WF_vars(\E d \in TargetDevices, m \in Messages : handle_proxy_pairing_request(d, m))
    /\ WF_vars(\E m \in Messages : handle_proxy_pairing_complete(Vouchee, m))

SpecLive == InitAuto /\ [][NextLive]_vars /\ Fairness

\* the three-device configuration, where start_proxy_vouching may be called
\* again on the session the automatic vouch started
NextAuto ==
    \/ NextLive
    \/ \E t \in SpvSlots, sid \in SessionIds, targets \in TargetLists :
          SpvCall(t, sid, targets)
    \/ \E t \in SpvSlots : SpvEmpty(t)

SpecAuto == InitAuto /\ [][NextAuto]_vars

\* the voucher vouches new devices to every paired device, and has either C as
\* its one paired device or no paired device at all
NoPeers == [d \in Devices |-> [p \in Devices |-> NoPeer]]

InitAutoAny ==
    /\ TargetInit
    /\ ClockInit
    /\ proxy_config = [d \in Devices |-> Config(TRUE, d = Local)]
    /\ \/ registry = Registry0 /\ VoucherInit(TargetDevices, TRUE)
       \/ registry = NoPeers /\ VoucherInit({}, TRUE)

SpecAutoAny == InitAutoAny /\ [][NextLive]_vars

\* the voucher is asked to vouch to a list of two in one call, of C, paired and
\* connected, and D, not paired (the same device may be named twice); every
\* task keeps running
TargetPairs == [1..2 -> Devices \ {Local, Vouchee}]

InitPair ==
    /\ VoucherInit(TargetDevices, TRUE)
    /\ TargetInit
    /\ ClockInit
    /\ proxy_config = [d \in Devices |-> Config(TRUE, FALSE)]
    /\ registry = Registry0

NextPair ==
    \/ NextLive
    \/ \E t \in SpvSlots, sid \in SessionIds, targets \in TargetPairs :
          SpvCall(t, sid, targets)

SpecPair == InitPair /\ [][NextPair]_vars /\ Fairness

\* ------------------------------------------- a target and the requests it gets
Impostor == "D"                    \* a peer that is not the claimed voucher

\* the target's registry record of the claimed voucher
VoucherRecords ==
    {NoPeer} \cup
    {PairedRecord(ptype, trust, None, NoKeys, node, persisted) :
        ptype \in {"Direct", "Proxied"}, trust \in {"Trusted", "Unverified"},
        node \in {NodeOf(Local), None}, persisted \in BOOLEAN}

MalformedKey == <<"garbage">>

\* the ProxyPairingRequest frames a peer can put on a stream to target d
ForgedRequests(d) ==
    {ProxyPairingRequest(NodeOf(d), from, sid, Vouchee, pk, Local,
                         IF signer = "malformed" THEN MalformedSignature
                         ELSE sign_vouch_payload(signer,
                                  build_vouch_payload(sid, Vouchee, pk, signed_ts)),
                         ts, keys) :
        from \in {NodeOf(Local), NodeOf(Impostor)},
        sid \in SessionIds,
        pk \in {PkOf(Vouchee), MalformedKey},
        signer \in {NodeOf(Local), NodeOf(Impostor), "malformed"},
        ts \in {now, now - DefaultSignatureMaxAge, now - DefaultSignatureMaxAge - 1},
        signed_ts \in {now, now - DefaultSignatureMaxAge - 1},
        keys \in {SessionKeysFromSharedSecret(<<"proxy">>),
                  [send_key |-> <<"same">>, receive_key |-> <<"same">>]}}

\* handle_stream: a frame arrives from an authenticated peer
InjectRequest(d, m) ==
    /\ injected < MaxInject
    /\ m \in ForgedRequests(d)
    /\ injected' = injected + 1
    /\ UNCHANGED persistence
    /\ net' = Put(net, m)
    /\ UNCHANGED <<active_sessions, pairing_codes, vouching_sessions, vouching_keys,
                   queue_open, vouching_queue, cleanup_timers, proxy_config, registry,
                   connected, chan_open, tasks, pending, timers, stores, now, ticks,
                   starts>>

InitTarget ==
    /\ VoucherInit({}, TRUE)
    /\ TargetInit
    /\ ClockInit
    /\ \E auto_accept \in BOOLEAN :
          proxy_config = [d \in Devices |-> Config(auto_accept, FALSE)]
    /\ \E voucher \in VoucherRecords, vouchee \in {NoPeer, DirectPeer(Vouchee)} :
          registry = [d \in Devices |-> [p \in Devices |->
                        IF d \in TargetDevices /\ p = Local THEN voucher
                        ELSE IF d \in TargetDevices /\ p = Vouchee THEN vouchee
                        ELSE NoPeer]]

NextTarget ==
    \/ \E d \in TargetDevices : \E m \in ForgedRequests(d) : InjectRequest(d, m)
    \/ \E d \in TargetDevices, m \in Messages : handle_proxy_pairing_request(d, m)
    \/ \E d \in TargetDevices, sid \in SessionIds, accepted \in BOOLEAN :
          confirm_proxy_pairing(d, sid, accepted)
    \/ \E timer \in timers : ConfirmationTimer(timer)
    \/ \E d \in TickSteps : Tick(d)

SpecTarget == InitTarget /\ [][NextTarget]_vars

\* ------------------------------------ the vouchee and its ProxyPairingComplete
\* the ProxyPairingComplete frames a peer can put on a stream to the vouchee
ForgedCompletes ==
    {ProxyPairingComplete(NodeOf(Vouchee), from, sid, voucher,
                          <<[device_id |-> p,
                             session_keys |-> SessionKeysFromSharedSecret(<<"proxy">>)]>>,
                          <<>>) :
        from \in {NodeOf(Local), NodeOf(Impostor)}, sid \in SessionIds,
        voucher \in {Local, Impostor}, p \in Devices \ {Local, Vouchee}}

\* handle_stream: a frame arrives at the vouchee from an authenticated peer
InjectComplete(m) ==
    /\ injected < MaxInject
    /\ m \in ForgedCompletes
    /\ injected' = injected + 1
    /\ net' = Put(net, m)
    /\ UNCHANGED <<active_sessions, pairing_codes, vouching_sessions, vouching_keys,
                   queue_open, vouching_queue, cleanup_timers, proxy_config, registry,
                   connected, chan_open, tasks, pending, timers, stores, now, ticks,
                   starts, persistence>>

\* the vouchee knows the voucher by any record, or not at all
InitVouchee ==
    /\ VoucherInit({}, TRUE)
    /\ TargetInit
    /\ ClockInit
    /\ proxy_config = [d \in Devices |-> Config(TRUE, FALSE)]
    /\ \E voucher \in VoucherRecords :
          registry = [d \in Devices |-> [p \in Devices |->
                        IF d = Vouchee /\ p = Local THEN voucher ELSE NoPeer]]

NextVouchee ==
    \/ \E m \in ForgedCompletes : InjectComplete(m)
    \/ \E m \in Messages : handle_proxy_pairing_complete(Vouchee, m)

SpecVouchee == InitVouchee /\ [][NextVouchee]_vars

\* ------------------------------------------------- the handler's locks
\* the operations whose lock acquisitions are followed
LockOps == {"process_state_transitions", "cleanup_expired_sessions", "cancel_session",
            "start_pairing_session_with_id", "update_vouch_status",
            "finalize_vouching_session", "schedule_vouching_cleanup",
            "start_proxy_vouching"}

Acquire(lock, mode) == [op |-> "acquire", lock |-> lock, mode |-> mode]
Release(lock) == [op |-> "release", lock |-> lock, mode |-> "none"]

\* a plan in which cleanup_expired_sessions takes the codes before the sessions
LockPlanCodesFirst(name) ==
    IF name = "cleanup_expired_sessions"
    THEN <<Acquire("pairing_codes", "write"), Acquire("active_sessions", "write"),
           Release("active_sessions"), Release("pairing_codes")>>
    ELSE <<Acquire("active_sessions", "write"), Release("active_sessions")>>

\* the guards an operation takes and drops, in the order of its code
LockPlan(name) ==
    CASE name = "process_state_transitions" ->                    \* 521, 596
            <<Acquire("active_sessions", "write"), Release("active_sessions")>>
      [] name = "cleanup_expired_sessions" ->                     \* 452, 453, 481
            <<Acquire("active_sessions", "write"), Acquire("pairing_codes", "write"),
              Release("pairing_codes"), Release("active_sessions")>>
      [] name = "cancel_session" ->                               \* 432, 433
            <<Acquire("active_sessions", "write"), Release("active_sessions"),
              Acquire("pairing_codes", "write"), Release("pairing_codes")>>
      [] name = "start_pairing_session_with_id" ->                \* 309, 315, 229
            <<Acquire("active_sessions", "write"), Release("active_sessions"),
              Acquire("pairing_codes", "write"), Release("pairing_codes"),
              Acquire("active_sessions", "read"), Release("active_sessions")>>
      [] name = "update_vouch_status" ->                          \* 740, 746
            <<Acquire("vouching_keys", "write"), Release("vouching_keys"),
              Acquire("vouching_sessions", "write"), Release("vouching_sessions")>>
      [] name = "finalize_vouching_session" ->                    \* 795, 808, 827, 860, 882
            <<Acquire("vouching_sessions", "read"), Release("vouching_sessions"),
              Acquire("device_registry", "read"), Release("device_registry"),
              Acquire("vouching_keys", "read"), Release("vouching_keys"),
              Acquire("device_registry", "read"), Release("device_registry"),
              Acquire("vouching_keys", "write"), Release("vouching_keys")>>
      [] name = "schedule_vouching_cleanup" ->                    \* 898, 902
            <<Acquire("vouching_sessions", "write"), Release("vouching_sessions"),
              Acquire("vouching_keys", "write"), Release("vouching_keys")>>
      [] OTHER ->                                 \* start_proxy_vouching: 1049, 1139, 1166
            <<Acquire("vouching_sessions", "write"), Release("vouching_sessions"),
              Acquire("vouching_keys", "write"), Release("vouching_keys"),
              Acquire("device_registry", "read"), Release("device_registry")>>

\* the guards the task in slot t holds after the first i events of its plan
Held(t) ==
    LET plan == LockPlan(tasks[t].pc)
        i == tasks[t].i
    IN  IF tasks[t].pc \notin LockOps THEN {}
        ELSE {plan[j] : j \in {j \in 1..i :
                 /\ plan[j].op = "acquire"
                 /\ \A k \in (j + 1)..i :
                       ~(plan[k].op = "release" /\ plan[k].lock = plan[j].lock)}}

\* the next event of the task in slot t, if it is in the middle of a plan
MidPlan(t) == tasks[t].pc \in LockOps /\ tasks[t].i < Len(LockPlan(tasks[t].pc))
NextEvent(t) == LockPlan(tasks[t].pc)[tasks[t].i + 1]

\* RwLock: a write guard excludes every other guard, read guards share
CanStep(t) ==
    /\ MidPlan(t)
    /\ NextEvent(t).op = "acquire"
       => \A u \in TaskIds : \A h \in Held(u) :
             h.lock = NextEvent(t).lock
             => u # t /\ h.mode = "read" /\ NextEvent(t).mode = "read"

LockBegin(t, name) ==
    /\ tasks[t].pc = "idle"
    /\ name \in LockOps
    /\ SetTask(t, [Idle EXCEPT !.pc = name])
    /\ UNCHANGED <<active_sessions, pairing_codes, vouching_sessions, vouching_keys,
                   queue_open, vouching_queue, cleanup_timers, proxy_config, registry,
                   connected, chan_open, net, pending, timers, stores, now, ticks,
                   starts, injected, persistence>>

LockStep(t) ==
    /\ CanStep(t)
    /\ SetTask(t, [tasks[t] EXCEPT !.i = @ + 1])
    /\ UNCHANGED <<active_sessions, pairing_codes, vouching_sessions, vouching_keys,
                   queue_open, vouching_queue, cleanup_timers, proxy_config, registry,
                   connected, chan_open, net, pending, timers, stores, now, ticks,
                   starts, injected, persistence>>

LockEnd(t) ==
    /\ tasks[t].pc \in LockOps
    /\ ~MidPlan(t)
    /\ SetTask(t, Idle)
    /\ UNCHANGED <<active_sessions, pairing_codes, vouching_sessions, vouching_keys,
                   queue_open, vouching_queue, cleanup_timers, proxy_config, registry,
                   connected, chan_open, net, pending, timers, stores, now, ticks,
                   starts, injected, persistence>>

NextLocks ==
    \/ \E t \in TaskIds, name \in LockOps : LockBegin(t, name)
    \/ \E t \in TaskIds : LockStep(t)
    \/ \E t \in TaskIds : LockEnd(t)

SpecLocks == Init /\ [][NextLocks]_vars

\* -------------------------------------------- a target that is offline
\* the three-device configuration with C offline when the vouch starts
InitOffline ==
    /\ VoucherInit({}, TRUE)
    /\ TargetInit
    /\ ClockInit
    /\ proxy_config = [d \in Devices |-> Config(TRUE, d = Local)]
    /\ registry = Registry0

NextOffline ==
    \/ NextLive
    \/ \E p \in TargetDevices : Connect(p)

\* the tasks keep running and messages are delivered; when C connects is its own affair
SpecOffline == InitOffline /\ [][NextOffline]_vars /\ Fairness

\* ------------------------------------------------- the vouch queue alone
\* the entries the queue's operations are applied to
QueueEntries ==
    [session_id : SessionIds, target_device_id : {"C", "D"},
     voucher_device_id : {Local}, vouchee_device_id : {Vouchee},
     vouchee_public_key : {<<"pk", Vouchee>>},
     voucher_signature : {sign_vouch_payload(NodeOf(Local),
                              build_vouch_payload("s1", Vouchee, <<"pk", Vouchee>>, 0))},
     proxied_session_keys : {SessionKeysFromSharedSecret(<<"proxy">>)},
     created_at : {0}, expires_at : {DefaultResponseTimeout, QueueExpirySecs},
     status : {"Queued", "Waiting"}, retry_count : {0, 1},
     last_attempt_at : {NoTime, 0}]

QueueUpsert(e) ==
    /\ queue_open
    /\ vouching_queue' = upsert_entry(vouching_queue, e)
    /\ UNCHANGED <<active_sessions, pairing_codes, vouching_sessions, vouching_keys,
                   queue_open, cleanup_timers, proxy_config, registry, connected,
                   chan_open, net, tasks, pending, timers, stores, now, ticks, starts,
                   injected, persistence>>

QueueUpdateStatus(sid, target, status, retry_count, last_attempt_at) ==
    /\ queue_open
    /\ vouching_queue' = update_status(vouching_queue, sid, target, status, retry_count,
                                       last_attempt_at)
    /\ UNCHANGED <<active_sessions, pairing_codes, vouching_sessions, vouching_keys,
                   queue_open, cleanup_timers, proxy_config, registry, connected,
                   chan_open, net, tasks, pending, timers, stores, now, ticks, starts,
                   injected, persistence>>

QueueRemove(sid, target) ==
    /\ queue_open
    /\ vouching_queue' = remove_entry(vouching_queue, sid, target)
    /\ UNCHANGED <<active_sessions, pairing_codes, vouching_sessions, vouching_keys,
                   queue_open, cleanup_timers, proxy_config, registry, connected,
                   chan_open, net, tasks, pending, timers, stores, now, ticks, starts,
                   injected, persistence>>

QueueRemoveExpired(t) ==
    /\ queue_open
    /\ vouching_queue' = remove_expired(vouching_queue, t)
    /\ UNCHANGED <<active_sessions, pairing_codes, vouching_sessions, vouching_keys,
                   queue_open, cleanup_timers, proxy_config, registry, connected,
                   chan_open, net, tasks, pending, timers, stores, now, ticks, starts,
                   injected, persistence>>

InitQueue ==
    /\ VoucherInit({}, TRUE)
    /\ TargetInit
    /\ ClockInit
    /\ proxy_config = [d \in Devices |-> Config(TRUE, FALSE)]
    /\ registry = Registry0

NextQueue ==
    \/ \E e \in QueueEntries : QueueUpsert(e)
    \/ \E e \in QueueEntries :
          QueueUpdateStatus(e.session_id, e.target_device_id, e.status, e.retry_count,
                            e.last_attempt_at)
    \/ \E e \in QueueEntries : QueueRemove(e.session_id, e.target_device_id)
    \/ \E t \in {DefaultResponseTimeout, QueueExpirySecs} : QueueRemoveExpired(t)

SpecQueue == InitQueue /\ [][NextQueue]_vars

\* ------------------------------------------ a target that never answers
\* the steps of start_proxy_vouching, update_vouch_status and finalization
SenderStep(t) ==
    \/ CvsInsert(t)
    \/ CvsAuto(t)
    \/ SpvSeed(t)
    \/ SpvLoop(t)
    \/ SpvKeys(t)
    \/ SpvUpsert(t)
    \/ SpvSend(t)
    \/ SpvQupdate(t)
    \/ UvsKeys(t)
    \/ UvsWrite(t)
    \/ FinRead(t)
    \/ FinSend(t)
    \/ FinPurge(t)

\* the voucher alone: its requests stay on the wire, unanswered
NextSilent ==
    \/ \E sid \in SessionIds : StartPairing(sid)
    \/ \E sid \in SessionIds : handle_pairing_request(sid)
    \/ \E t \in SpvSlots, sid \in SessionIds : PairingCompleted(t, sid)
    \/ \E t \in SpvSlots, sid \in SessionIds, targets \in TargetLists :
          SpvCall(t, sid, targets)
    \/ \E t \in TaskIds : SenderStep(t)
    \/ DrainStep
    \/ init_vouching_queue
    \/ \E p \in TargetDevices : Connect(p)
    \/ \E d \in TickSteps : Tick(d)

SpecSilent == Init /\ [][NextSilent]_vars

\* the target connects only after start_proxy_vouching has returned, so that
\* every request it gets was sent by a drainer pass
ConnectAfterStart(p) ==
    /\ \A t \in SpvSlots : tasks[t].pc = "done"
    /\ Connect(p)

\* the voucher's steps when no request is sent by start_proxy_vouching and no
\* vouch is refused
LateStep(t) ==
    \/ CvsInsert(t)
    \/ CvsAuto(t)
    \/ SpvSeed(t)
    \/ SpvLoop(t)
    \/ SpvKeys(t)
    \/ SpvUpsert(t)
    \/ SpvSend(t)
    \/ HprQrm(t)
    \/ UvsWrite(t)
    \/ FinRead(t)
    \/ FinSend(t)
    \/ FinPurge(t)

NextLate ==
    \/ \E sid \in SessionIds : StartPairing(sid)
    \/ \E sid \in SessionIds : handle_pairing_request(sid)
    \/ \E t \in SpvSlots, sid \in SessionIds : PairingCompleted(t, sid)
    \/ \E t \in TaskIds : LateStep(t)
    \/ \E t \in RespSlots, m \in Messages : HprReceive(t, m)
    \/ DrainStart \/ DrainLoop \/ DrainSend \/ DrainQupdate
    \/ \E d \in TargetDevices, m \in Messages : handle_proxy_pairing_request(d, m)
    \/ \E m \in Messages : handle_proxy_pairing_complete(Vouchee, m)
    \/ \E p \in TargetDevices : ConnectAfterStart(p)

SpecLate == InitOffline /\ [][NextLate]_vars

\* ------------------------------------------------- a restart of the voucher
\* The voucher's process ends and starts again: PairingProtocolHandler::new
\* (lines 114-143) builds every in-memory map empty and the queue handle None,
\* the spawned tasks and the connections are gone; the SQLite file of the queue
\* and the persisted registry are what they were. init_vouching_queue then
\* reopens the file (VouchingQueue::open).
Restart ==
    /\ queue_open
    /\ active_sessions' = [sid \in SessionIds |-> NoSession]
    /\ pairing_codes' = [sid \in SessionIds |-> NoSecret]
    /\ vouching_sessions' = [sid \in SessionIds |-> NoVouching]
    /\ vouching_keys' = [k \in SessionIds \X Devices |-> NoKeys]
    /\ queue_open' = FALSE
    /\ cleanup_timers' = {}
    /\ connected' = {}
    /\ chan_open' = TRUE
    /\ tasks' = [t \in TaskIds |-> Idle]
    /\ UNCHANGED <<vouching_queue, proxy_config, registry, net, pending, timers, stores,
                   now, ticks, starts, injected, persistence>>

NextRestart ==
    \/ \E sid \in SessionIds : StartPairing(sid)
    \/ \E sid \in SessionIds : handle_pairing_request(sid)
    \/ \E t \in SpvSlots, sid \in SessionIds : PairingCompleted(t, sid)
    \/ \E t \in SpvSlots, sid \in SessionIds, targets \in TargetLists :
          SpvCall(t, sid, targets)
    \/ \E t \in TaskIds : VoucherStep(t)
    \/ \E t \in RespSlots, m \in Messages : HprReceive(t, m)
    \/ DrainStep
    \/ \E d \in TargetDevices, m \in Messages : handle_proxy_pairing_request(d, m)
    \/ init_vouching_queue
    \/ \E p \in TargetDevices : Connect(p)
    \/ Restart

SpecRestart == Init /\ [][NextRestart]_vars

\* ------------------------------------------------- frames on a stream
\* a size test that also refuses a frame of exactly the maximum
FrameAtLeastMax(msg_len) == msg_len >= MAX_MESSAGE_SIZE

\* handle_stream: `if msg_len > MAX_MESSAGE_SIZE`
FrameTooLarge(msg_len) == msg_len > MAX_MESSAGE_SIZE

\* a frame: the four-byte length its sender declares, and the message its
\* payload deserializes to when handle_stream reads that many bytes
Frame(msg_len, payload) == [msg_len |-> msg_len, payload |-> payload]

Stream(to, from, frames) ==
    [type |-> "Stream", to |-> to, from |-> from, frames |-> frames]

\* declared lengths (a u32): small, the maximum, one more, and a very large one
FrameLengths == {512, MAX_MESSAGE_SIZE, MAX_MESSAGE_SIZE + 1, 2147483647}

\* the requests the voucher's node writes: one that is in order, one that is stale
StreamPayloads(d) ==
    {ProxyPairingRequest(NodeOf(d), NodeOf(Local), "s1", Vouchee, PkOf(Vouchee), Local,
                         sign_vouch_payload(NodeOf(Local),
                             build_vouch_payload("s1", Vouchee, PkOf(Vouchee), ts)),
                         ts, SessionKeysFromSharedSecret(<<"proxy">>)) :
        ts \in {now, now - DefaultSignatureMaxAge - 1}}

StreamsTo(d) ==
    {Stream(NodeOf(d), NodeOf(Local), frames) :
        frames \in UNION {[1..k -> {Frame(l, m) : l \in FrameLengths,
                                                   m \in StreamPayloads(d)}] :
                          k \in 1..MaxFrames}}

\* a peer opens a stream to d and writes its frames
OpenStream(d, stream) ==
    /\ injected < MaxInject
    /\ stream \in StreamsTo(d)
    /\ injected' = injected + 1
    /\ UNCHANGED persistence
    /\ net' = Put(net, stream)
    /\ UNCHANGED <<active_sessions, pairing_codes, vouching_sessions, vouching_keys,
                   queue_open, vouching_queue, cleanup_timers, proxy_config, registry,
                   connected, chan_open, tasks, pending, timers, stores, now, ticks,
                   starts>>

\* lines 2004-2087, one turn of the loop: read the length; an oversized frame
\* ends the handler (break), any other frame's payload is read and handed to
\* handle_pairing_message, and the loop goes on with the rest of the stream
handle_stream(d, stream) ==
    /\ BagIn(stream, net)
    /\ stream.type = "Stream"
    /\ stream.to = NodeOf(d)
    /\ LET frame == Head(stream.frames)
           rest == Tail(stream.frames)
           taken == Take(net, stream)
       IN  net' = IF FrameTooLarge(frame.msg_len) THEN taken
                  ELSE IF rest = <<>> THEN Put(taken, frame.payload)
                  ELSE Put(Put(taken, Stream(stream.to, stream.from, rest)),
                           frame.payload)
    /\ UNCHANGED <<active_sessions, pairing_codes, vouching_sessions, vouching_keys,
                   queue_open, vouching_queue, cleanup_timers, proxy_config, registry,
                   connected, chan_open, tasks, pending, timers, stores, now, ticks,
                   starts, injected, persistence>>

NextStream ==
    \/ \E d \in TargetDevices : \E stream \in StreamsTo(d) : OpenStream(d, stream)
    \/ \E d \in TargetDevices, stream \in Messages : handle_stream(d, stream)
    \/ \E d \in TargetDevices, m \in Messages : handle_proxy_pairing_request(d, m)

SpecStream == InitTarget /\ [][NextStream]_vars

\* ------------------------------------- direct pairing: the session store
\* a session record with one more field (the reason of a Failed state, the
\* node a pending response goes to)
With(session, field, value) ==
    [f \in DOMAIN session \cup {field} |-> IF f = field THEN value ELSE session[f]]

\* PairingState::Failed { reason }
MarkFailed(session, reason) == With(With(session, "state", "Failed"), "reason", reason)

PairingRequest(to, from, sid, device, pk) ==
    [type |-> "PairingRequest", to |-> to, from |-> from, session_id |-> sid,
     device_info |-> device, public_key |-> pk]

Challenge(to, from, sid, device) ==
    [type |-> "Challenge", to |-> to, from |-> from, session_id |-> sid,
     device_info |-> device]

Response(to, from, sid) ==
    [type |-> "Response", to |-> to, from |-> from, session_id |-> sid]

\* the peer of a direct pairing writes a PairingRequest (as the joiner) or a
\* Challenge (as the initiator) to this device
PeerMessages ==
    {PairingRequest(NodeOf(Local), NodeOf(Vouchee), sid, Vouchee, pk) :
        sid \in SessionIds, pk \in {PkOf(Vouchee), <<"pk">>}}
    \cup {Challenge(NodeOf(Local), NodeOf(Vouchee), sid, Vouchee) : sid \in SessionIds}

PeerSends(m) ==
    /\ injected < MaxInject
    /\ m \in PeerMessages
    /\ injected' = injected + 1
    /\ net' = Put(net, m)
    /\ UNCHANGED <<active_sessions, pairing_codes, vouching_sessions, vouching_keys,
                   queue_open, vouching_queue, cleanup_timers, proxy_config, registry,
                   connected, chan_open, tasks, pending, timers, stores, now, ticks,
                   starts, persistence>>

\* lines 337-416: a joiner's session starts in Scanning; an expired code or a
\* session already under this id is an error that leaves everything as it was
join_pairing_session(sid, code_expired) ==
    /\ ~code_expired
    /\ active_sessions[sid] = NoSession
    /\ active_sessions' = [active_sessions EXCEPT ![sid] =
            PairingSession("Scanning", None, NoPk, NoSecret, now)]
    /\ pairing_codes' = [pairing_codes EXCEPT ![sid] = CodeSecret(sid)]
    /\ persistence' = save_sessions_to_persistence(active_sessions')
    /\ UNCHANGED <<vouching_sessions, vouching_keys, queue_open, vouching_queue,
                   cleanup_timers, proxy_config, registry, connected, chan_open, net,
                   tasks, pending, timers, stores, now, ticks, starts, injected>>

\* lines 448-481: sessions older than ten minutes go, with their codes
cleanup_expired_sessions ==
    LET sessions_to_remove ==
            {sid \in SessionIds : /\ active_sessions[sid] # NoSession
                                  /\ now - active_sessions[sid].created_at
                                        > SessionTimeoutSecs}
    IN  /\ active_sessions' = [sid \in SessionIds |->
                IF sid \in sessions_to_remove THEN NoSession ELSE active_sessions[sid]]
        /\ pairing_codes' = [sid \in SessionIds |->
                IF sid \in sessions_to_remove THEN NoSecret ELSE pairing_codes[sid]]
        /\ UNCHANGED <<vouching_sessions, vouching_keys, queue_open, vouching_queue,
                       cleanup_timers, proxy_config, registry, connected, chan_open,
                       net, tasks, pending, timers, stores, now, ticks, starts,
                       injected, persistence>>

\* a driver that fails a Scanning session whatever its age
DriverFailsScanning(session) ==
    IF session = NoSession THEN session
    ELSE IF session.state = "ResponsePending"
    THEN IF session.remote_node_id # None /\ chan_open
         THEN With(session, "state", "ResponseSent")
         ELSE MarkFailed(session, "Internal channel closed")
    ELSE IF session.state = "Scanning"
    THEN MarkFailed(session, "Scanning timeout")
    ELSE session

\* lines 524-592: what the driver makes of one session
DriverTransition(session) ==
    IF session = NoSession THEN session
    ELSE IF session.state = "ResponsePending"
    THEN IF session.remote_node_id # None
         THEN IF chan_open
              THEN With(session, "state", "ResponseSent")
              ELSE MarkFailed(session, "Internal channel closed")
         ELSE MarkFailed(session, "No remote node ID for response")
    ELSE IF session.state = "Scanning" /\ now - session.created_at > ScanTimeoutSecs
    THEN MarkFailed(session, "Scanning timeout")
    ELSE session

\* lines 519-596: the driver's tick
process_state_transitions ==
    LET dispatched == {sid \in SessionIds :
                          /\ active_sessions[sid] # NoSession
                          /\ active_sessions[sid].state = "ResponsePending"
                          /\ DriverTransition(active_sessions[sid]).state = "ResponseSent"}
    IN  /\ active_sessions' = [sid \in SessionIds |->
                                  DriverTransition(active_sessions[sid])]
        /\ net' = net (+) SetToBag({Response(active_sessions[sid].remote_node_id,
                                             NodeOf(Local), sid) : sid \in dispatched})
        /\ UNCHANGED <<pairing_codes, vouching_sessions, vouching_keys, queue_open,
                       vouching_queue, cleanup_timers, proxy_config, registry,
                       connected, chan_open, tasks, pending, timers, stores, now,
                       ticks, starts, injected, persistence>>

\* the initiator's handling of a PairingRequest: the error it returns, or None
PairingRequestError(m) ==
    IF ~validate_public_key(m.public_key) THEN "Invalid public key"
    ELSE IF active_sessions[m.session_id] = NoSession THEN "Session not found"
    ELSE IF active_sessions[m.session_id].state # "WaitingForConnection"
    THEN "Session in wrong state"
    ELSE None

\* the session after a PairingRequest was accepted: the joiner is recorded and a
\* challenge is the reply
ChallengeSent(m) ==
    [active_sessions EXCEPT ![m.session_id] =
        PairingSession("ChallengeSent", m.device_info, m.public_key, NoSecret,
                       active_sessions[m.session_id].created_at)]

\* lines 2134-2200: a PairingRequest on the request path; an error marks the
\* session it names as Failed
handle_request(m) ==
    /\ BagIn(m, net)
    /\ m.type = "PairingRequest"
    /\ m.to = NodeOf(Local)
    /\ LET error == PairingRequestError(m) IN
       IF error = None
       THEN /\ active_sessions' = ChallengeSent(m)
            /\ net' = Put(Take(net, m),
                          Challenge(m.from, NodeOf(Local), m.session_id, Local))
       ELSE /\ active_sessions' =
                  IF active_sessions[m.session_id] # NoSession
                  THEN [active_sessions EXCEPT ![m.session_id] = MarkFailed(@, error)]
                  ELSE active_sessions
            /\ net' = Take(net, m)
    /\ UNCHANGED <<pairing_codes, vouching_sessions, vouching_keys, queue_open,
                   vouching_queue, cleanup_timers, proxy_config, registry, connected,
                   chan_open, tasks, pending, timers, stores, now, ticks, starts,
                   injected, persistence>>

\* lines 1773-1790 under lines 2075-2110: a PairingRequest on the stream path;
\* an error ends the stream handler's loop
handle_pairing_message(m) ==
    /\ BagIn(m, net)
    /\ m.type = "PairingRequest"
    /\ m.to = NodeOf(Local)
    /\ LET error == PairingRequestError(m) IN
       IF error = None
       THEN /\ active_sessions' = ChallengeSent(m)
            /\ net' = Put(Take(net, m),
                          Challenge(m.from, NodeOf(Local), m.session_id, Local))
       ELSE /\ active_sessions' = active_sessions
            /\ net' = Take(net, m)
    /\ UNCHANGED <<pairing_codes, vouching_sessions, vouching_keys, queue_open,
                   vouching_queue, cleanup_timers, proxy_config, registry, connected,
                   chan_open, tasks, pending, timers, stores, now, ticks, starts,
                   injected, persistence>>

\* lines 2202-2262: a Challenge reaches the joiner; handle_pairing_challenge
\* answers a Scanning session and refuses any other
HrChallenge(t, m) ==
    /\ t \in RespSlots
    /\ tasks[t].pc = "idle"
    /\ BagIn(m, net)
    /\ m.type = "Challenge"
    /\ m.to = NodeOf(Local)
    /\ net' = Take(net, m)
    /\ IF /\ active_sessions[m.session_id] # NoSession
          /\ active_sessions[m.session_id].state = "Scanning"
       THEN /\ active_sessions' = [active_sessions EXCEPT ![m.session_id] =
                    With(With([@ EXCEPT !.remote_device_id = m.device_info,
                                        !.remote_device_info = m.device_info],
                              "state", "ResponsePending"),
                         "remote_node_id", m.from)]
            /\ SetTask(t, [Idle EXCEPT !.pc = "hr_mark", !.sid = m.session_id,
                                       !.msg = m])
       ELSE /\ active_sessions' = active_sessions
            /\ SetTask(t, Idle)
    /\ UNCHANGED <<pairing_codes, vouching_sessions, vouching_keys, queue_open,
                   vouching_queue, cleanup_timers, proxy_config, registry, connected,
                   chan_open, pending, timers, stores, now, ticks, starts, injected,
                   persistence>>

\* lines 2286-2314: the session is marked ResponseSent unless it is Completed,
\* and the response goes to the initiator
HrMark(t) ==
    /\ tasks[t].pc = "hr_mark"
    /\ LET sid == tasks[t].sid IN
       /\ active_sessions' =
             IF active_sessions[sid] # NoSession
                /\ active_sessions[sid].state # "Completed"
             THEN [active_sessions EXCEPT ![sid] = With(@, "state", "ResponseSent")]
             ELSE active_sessions
       /\ net' = Put(net, Response(tasks[t].msg.from, NodeOf(Local), sid))
    /\ SetTask(t, [tasks[t] EXCEPT !.pc = "hr_wait"])
    /\ UNCHANGED <<pairing_codes, vouching_sessions, vouching_keys, queue_open,
                   vouching_queue, cleanup_timers, proxy_config, registry, connected,
                   chan_open, pending, timers, stores, now, ticks, starts, injected,
                   persistence>>

\* what send_pairing_message_to_node returns to the joiner
SendOutcomes == {"Complete", "CompleteFailure", "Other", "Nothing", "Err"}

\* lines 2367-2429: the initiator's Complete ends the pairing; anything else
\* fails the session
HrComplete(t, outcome) ==
    /\ tasks[t].pc = "hr_wait"
    /\ outcome \in SendOutcomes
    /\ LET sid == tasks[t].sid
           session == active_sessions[sid]
           peer == tasks[t].msg.device_info
       IN  IF session = NoSession
           THEN UNCHANGED <<active_sessions, registry>>
           ELSE CASE outcome = "Complete" ->
                       /\ active_sessions' = [active_sessions EXCEPT ![sid] =
                               With([session EXCEPT !.shared_secret = pairing_codes[sid]],
                                    "state", "Completed")]
                       /\ registry' = complete_pairing(registry, Local, peer, NoKeys,
                                                       "Direct", None)
                  [] outcome = "CompleteFailure" ->
                       /\ active_sessions' = [active_sessions EXCEPT ![sid] =
                               MarkFailed(session, "Pairing failed")]
                       /\ UNCHANGED registry
                  [] outcome = "Other" ->
                       /\ active_sessions' = [active_sessions EXCEPT ![sid] =
                               MarkFailed(session, "Unexpected response type")]
                       /\ UNCHANGED registry
                  [] outcome = "Nothing" ->
                       /\ active_sessions' = [active_sessions EXCEPT ![sid] =
                               MarkFailed(session, "No Complete message received")]
                       /\ UNCHANGED registry
                  [] OTHER ->
                       /\ active_sessions' = [active_sessions EXCEPT ![sid] =
                               MarkFailed(session, "Send failed")]
                       /\ UNCHANGED registry
    /\ SetTask(t, Idle)
    /\ UNCHANGED <<pairing_codes, vouching_sessions, vouching_keys, queue_open,
                   vouching_queue, cleanup_timers, proxy_config, connected, chan_open,
                   net, pending, timers, stores, now, ticks, starts, injected,
                   persistence>>

\* lines 2460-2471: the sessions with the disconnected device go
handle_event(device_id) ==
    /\ active_sessions' = [sid \in SessionIds |->
            IF /\ active_sessions[sid] # NoSession
               /\ active_sessions[sid].remote_device_id = device_id
            THEN NoSession ELSE active_sessions[sid]]
    /\ UNCHANGED <<pairing_codes, vouching_sessions, vouching_keys, queue_open,
                   vouching_queue, cleanup_timers, proxy_config, registry, connected,
                   chan_open, net, tasks, pending, timers, stores, now, ticks, starts,
                   injected, persistence>>

\* lines 178-193, called on the handler that `new` has just built: the saved
\* sessions, if there are any, become the active sessions
load_persisted_sessions ==
    LET sessions == persistence
        count == Cardinality({sid \in SessionIds : sessions[sid] # NoSession})
    IN  /\ \A sid \in SessionIds : /\ active_sessions[sid] = NoSession
                                   /\ pairing_codes[sid] = NoSecret
        /\ active_sessions' = IF count > 0 THEN sessions ELSE active_sessions
        /\ UNCHANGED <<pairing_codes, vouching_sessions, vouching_keys, queue_open,
                       vouching_queue, cleanup_timers, proxy_config, registry,
                       connected, chan_open, net, tasks, pending, timers, stores, now,
                       ticks, starts, injected, persistence>>

NextSessions ==
    \/ \E sid \in SessionIds : start_pairing_session_with_id(sid)
    \/ \E sid \in SessionIds, code_expired \in BOOLEAN :
          join_pairing_session(sid, code_expired)
    \/ \E sid \in SessionIds : cancel_session(sid)
    \/ cleanup_expired_sessions
    \/ process_state_transitions
    \/ \E m \in PeerMessages : PeerSends(m)
    \/ \E m \in Messages : handle_request(m)
    \/ \E m \in Messages : handle_pairing_message(m)
    \/ \E t \in RespSlots, m \in Messages : HrChallenge(t, m)
    \/ \E t \in RespSlots : HrMark(t)
    \/ \E t \in RespSlots, outcome \in SendOutcomes : HrComplete(t, outcome)
    \/ \E device_id \in {Vouchee} : handle_event(device_id)
    \/ init_vouching_queue
    \/ Restart
    \/ load_persisted_sessions
    \/ \E d \in TickSteps : Tick(d)

SpecSessions == Init /\ [][NextSessions]_vars

\* ------------------------------------------- the driver on any session
\* the sessions a driver tick can find under an id
DriverSessions ==
    {NoSession}
    \cup {PairingSession(state, None, NoPk, NoSecret, 0) :
             state \in {"WaitingForConnection", "Scanning", "ResponseSent", "Completed"}}
    \cup {PairingSession("ChallengeSent", Vouchee, PkOf(Vouchee), NoSecret, 0)}
    \cup {With(PairingSession("ResponsePending", Vouchee, NoPk, NoSecret, 0),
               "remote_node_id", node) : node \in {None, NodeOf(Vouchee)}}
    \cup {MarkFailed(PairingSession("Scanning", None, NoPk, NoSecret, 0),
                     "Scanning timeout")}

\* a handler with one session of any kind, created at 0, its code and its
\* saved copy; the command channel may be closed already
InitDriver ==
    /\ \E session \in DriverSessions :
          /\ active_sessions = [sid \in SessionIds |-> session]
          /\ pairing_codes = [sid \in SessionIds |->
                                 IF session = NoSession THEN NoSecret
                                 ELSE CodeSecret(sid)]
          /\ persistence = save_sessions_to_persistence(active_sessions)
    /\ vouching_sessions = [sid \in SessionIds |-> NoVouching]
    /\ vouching_keys = [k \in SessionIds \X Devices |-> NoKeys]
    /\ queue_open = FALSE
    /\ vouching_queue = <<>>
    /\ cleanup_timers = {}
    /\ connected = {}
    /\ chan_open \in BOOLEAN
    /\ tasks = [t \in TaskIds |-> Idle]
    /\ starts = 0
    /\ TargetInit
    /\ net = EmptyBag
    /\ now \in {0, ScanTimeoutSecs}
    /\ ticks = 0
    /\ injected = 0
    /\ proxy_config = [d \in Devices |-> Config(TRUE, FALSE)]
    /\ registry = Registry0

NextDriver ==
    \/ process_state_transitions
    \/ cleanup_expired_sessions
    \/ \E sid \in SessionIds : start_pairing_session_with_id(sid)
    \/ \E sid \in SessionIds, code_expired \in BOOLEAN :
          join_pairing_session(sid, code_expired)
    \/ \E sid \in SessionIds : cancel_session(sid)
    \/ \E t \in RespSlots, m \in Messages : HrChallenge(t, m)
    \/ \E t \in RespSlots : HrMark(t)
    \/ \E m \in PeerMessages : PeerSends(m)
    \/ \E d \in TickSteps : Tick(d)
    \/ CloseChannel

SpecDriver == InitDriver /\ [][NextDriver]_vars

\* ------------------------------------------- join_pairing_session, by lock
\* lines 343-360: an expired code or a session found under the read lock is the
\* error the call returns; else the read lock is dropped and the call goes on
JoinCheck(t, sid, code_expired) ==
    /\ tasks[t].pc = "idle"
    /\ IF code_expired \/ active_sessions[sid] # NoSession
       THEN SetTask(t, [Idle EXCEPT !.sid = sid, !.result = "err"])
       ELSE SetTask(t, [Idle EXCEPT !.pc = "join_insert", !.sid = sid, !.ts = now])
    /\ UNCHANGED <<active_sessions, pairing_codes, vouching_sessions, vouching_keys,
                   queue_open, vouching_queue, cleanup_timers, proxy_config, registry,
                   connected, chan_open, net, pending, timers, stores, now, ticks,
                   starts, injected, persistence>>

\* lines 362-377: the Scanning session is inserted under the write lock
JoinInsert(t) ==
    /\ tasks[t].pc = "join_insert"
    /\ active_sessions' = [active_sessions EXCEPT ![tasks[t].sid] =
            PairingSession("Scanning", None, NoPk, NoSecret, tasks[t].ts)]
    /\ SetTask(t, [tasks[t] EXCEPT !.pc = "join_codes"])
    /\ UNCHANGED <<pairing_codes, vouching_sessions, vouching_keys, queue_open,
                   vouching_queue, cleanup_timers, proxy_config, registry, connected,
                   chan_open, net, pending, timers, stores, now, ticks, starts,
                   injected, persistence>>

\* lines 379-415: the code is stored, the sessions are saved, and the session is
\* looked up again: the call fails if it is gone or not Scanning
JoinFinish(t) ==
    /\ tasks[t].pc = "join_codes"
    /\ pairing_codes' = [pairing_codes EXCEPT ![tasks[t].sid] = CodeSecret(tasks[t].sid)]
    /\ persistence' = save_sessions_to_persistence(active_sessions)
    /\ SetTask(t, [Idle EXCEPT !.sid = tasks[t].sid,
                               !.result =
                                  IF /\ active_sessions[tasks[t].sid] # NoSession
                                     /\ active_sessions[tasks[t].sid].state = "Scanning"
                                  THEN "ok" ELSE "err"])
    /\ UNCHANGED <<active_sessions, vouching_sessions, vouching_keys, queue_open,
                   vouching_queue, cleanup_timers, proxy_config, registry, connected,
                   chan_open, net, pending, timers, stores, now, ticks, starts,
                   injected>>

\* joins and starts of pairing sessions that run side by side
NextJoin ==
    \/ \E t \in TaskIds, sid \in SessionIds, code_expired \in BOOLEAN :
          JoinCheck(t, sid, code_expired)
    \/ \E t \in TaskIds : JoinInsert(t)
    \/ \E t \in TaskIds : JoinFinish(t)
    \/ \E sid \in SessionIds : start_pairing_session_with_id(sid)
    \/ \E sid \in SessionIds : cancel_session(sid)
    \/ cleanup_expired_sessions
    \/ process_state_transitions
    \/ \E d \in TickSteps : Tick(d)

SpecJoin == Init /\ [][NextJoin]_vars

\* ----------------------------------------------- a request delivered twice
\* handle_stream: the same frame arrives twice (a retry or a replay of the peer)
DeliverTwice(d, m) ==
    /\ injected < MaxInject
    /\ m \in ForgedRequests(d)
    /\ injected' = injected + 1
    /\ UNCHANGED persistence
    /\ net' = Put(Put(net, m), m)
    /\ UNCHANGED <<active_sessions, pairing_codes, vouching_sessions, vouching_keys,
                   queue_open, vouching_queue, cleanup_timers, proxy_config, registry,
                   connected, chan_open, tasks, pending, timers, stores, now, ticks,
                   starts>>

NextDup ==
    \/ \E d \in TargetDevices : \E m \in ForgedRequests(d) : DeliverTwice(d, m)
    \/ \E d \in TargetDevices, m \in Messages : handle_proxy_pairing_request(d, m)
    \/ \E d \in TargetDevices, sid \in SessionIds, accepted \in BOOLEAN :
          confirm_proxy_pairing(d, sid, accepted)
    \/ \E timer \in timers : ConfirmationTimer(timer)
    \/ \E d \in TickSteps : Tick(d)

SpecDup == InitTarget /\ [][NextDup]_vars

\* ----------------------------------------------------------------- claims
\* the vouch of position j of session sid, before and after a step, when both
\* states hold the session and the position still belongs to the same device
SameVouch(sid, j) ==
    /\ vouching_sessions[sid] # NoVouching
    /\ vouching_sessions'[sid] # NoVouching
    /\ j \in 1..Len(vouching_sessions[sid].vouches)
    /\ j \in 1..Len(vouching_sessions'[sid].vouches)
    /\ vouching_sessions'[sid].vouches[j].device_id =
         vouching_sessions[sid].vouches[j].device_id

VouchPositions == 1..(MaxTargets + 1)

\* C1: on the voucher, in every reachable state and for every vouching session,
\* the session is Completed if and only if every vouch in it is Accepted,
\* Rejected or Unreachable (an empty vouches list included).
C1_CompletedIffAllTerminal ==
    \A sid \in SessionIds :
        vouching_sessions[sid] # NoVouching =>
            (vouching_sessions[sid].state = "Completed"
                <=> AllTerminal(vouching_sessions[sid].vouches))

\* a Completed session that holds a vouch which is not terminal
C1_CompletedWithOpenVouch ==
    \E sid \in SessionIds :
        /\ vouching_sessions[sid] # NoVouching
        /\ vouching_sessions[sid].state = "Completed"
        /\ vouching_sessions[sid].vouches # <<>>
        /\ ~AllTerminal(vouching_sessions[sid].vouches)

\* C2: once a vouch of a session is Accepted, Rejected or Unreachable, no step
\* changes its status while the session lives.
C2_TerminalIsFinal ==
    [][\A sid \in SessionIds, j \in VouchPositions :
          (SameVouch(sid, j)
             /\ vouching_sessions[sid].vouches[j].status \in TerminalStatuses)
          => vouching_sessions'[sid].vouches[j].status =
               vouching_sessions[sid].vouches[j].status]_vars

\* a vouch has been accepted while start_proxy_vouching is past its send and
\* has not yet recorded the vouch as Waiting
C2_AcceptedDuringSendTail ==
    \E sid \in SessionIds, t \in SpvSlots :
        /\ vouching_sessions[sid] # NoVouching
        /\ \E j \in 1..Len(vouching_sessions[sid].vouches) :
              vouching_sessions[sid].vouches[j].status = "Accepted"
        /\ tasks[t].pc \in {"spv_qupdate", "uvs_write"}
        /\ tasks[t].sid = sid

StatedTransitions ==
    {<<"Selected", "Queued">>, <<"Selected", "Waiting">>,
     <<"Queued", "Waiting">>, <<"Waiting", "Queued">>,
     <<"Waiting", "Accepted">>, <<"Waiting", "Rejected">>, <<"Waiting", "Unreachable">>}

\* C3: every change of a vouch's status is one of Selected -> Queued | Waiting,
\* Queued <-> Waiting, Waiting -> Accepted | Rejected | Unreachable.
C3_StatedTransitionsOnly ==
    [][\A sid \in SessionIds, j \in VouchPositions :
          (SameVouch(sid, j)
             /\ vouching_sessions'[sid].vouches[j].status #
                  vouching_sessions[sid].vouches[j].status)
          => <<vouching_sessions[sid].vouches[j].status,
               vouching_sessions'[sid].vouches[j].status>> \in StatedTransitions]_vars

\* a vouch of an unpaired target has gone from Selected straight to Rejected
C3_RejectedWithoutWaiting ==
    \E sid \in SessionIds :
        /\ vouching_sessions[sid] # NoVouching
        /\ \E j \in 1..Len(vouching_sessions[sid].vouches) :
              /\ vouching_sessions[sid].vouches[j].status = "Rejected"
              /\ vouching_sessions[sid].vouches[j].reason = "Target device not paired"

\* the messages a step puts on the wire
Sent(m) == CopiesIn(m, net') > CopiesIn(m, net)

\* the step is a call of start_proxy_vouching in slot t
IsSpvCall(t) == t \in SpvSlots /\ starts' = starts + 1 /\ tasks'[t] # tasks[t]

\* C5: a call of start_proxy_vouching whose pairing session is missing or is
\* not Completed returns that error, and the call changes neither the vouching
\* sessions, nor the key cache, nor the queue, and sends nothing.
C5_StartNeedsCompletedPairing ==
    [][\A t \in SpvSlots :
          (IsSpvCall(t) /\ active_sessions[tasks'[t].sid].state # "Completed")
          => /\ tasks'[t].pc = "done"
             /\ tasks'[t].result =
                  IF active_sessions[tasks'[t].sid] = NoSession
                  THEN "Pairing session not found"
                  ELSE "Pairing session is not completed"
             /\ UNCHANGED <<vouching_sessions, vouching_keys, vouching_queue, net>>]_vars

\* a call has failed on a pairing session that holds the joiner's info but is
\* not Completed
C5_FailedOnOpenPairing ==
    \E t \in SpvSlots :
        /\ tasks[t].pc = "done"
        /\ tasks[t].result = "Pairing session is not completed"
        /\ active_sessions[tasks[t].sid].state = "ChallengeSent"

\* the steps of a start_proxy_vouching call that was given no targets
InEmptyCall(t) ==
    /\ t \in SpvSlots
    /\ tasks[t].targets = <<>>
    /\ tasks[t].pc \in {"spv_seed", "spv_empty", "fin_read", "fin_send", "fin_purge"}
    /\ tasks'[t] # tasks[t]

\* C6: a call of start_proxy_vouching with no targets on a Completed pairing
\* session returns the session Completed with no vouches, writes no queue entry,
\* and the ProxyPairingComplete it sends has empty accepted_by and rejected_by.
C6_EmptyTargetsCompleteAtOnce ==
    [][\A t \in SpvSlots :
          InEmptyCall(t)
          => /\ vouching_queue' = vouching_queue
             /\ (tasks'[t].pc = "done" /\ tasks'[t].result = "ok")
                  => /\ tasks'[t].retval.state = "Completed"
                     /\ tasks'[t].retval.vouches = <<>>
             /\ \A m \in BagToSet(net') :
                  (Sent(m) /\ m.type = "ProxyPairingComplete")
                  => m.accepted_by = <<>> /\ m.rejected_by = <<>>]_vars

\* a call with no targets has returned the session Completed and empty
C6_EmptyCallReturned ==
    \E t \in SpvSlots :
        /\ tasks[t].pc = "done"
        /\ tasks[t].result = "ok"
        /\ tasks[t].retval # NoVouching
        /\ tasks[t].retval.state = "Completed"
        /\ tasks[t].retval.vouches = <<>>

\* slot t is inside the target loop of start_proxy_vouching
InTargetLoop(t) ==
    /\ t \in SpvSlots
    /\ tasks[t].targets # <<>>
    /\ tasks[t].pc \in {"spv_loop", "spv_keys", "spv_upsert", "spv_send", "spv_qupdate",
                        "uvs_keys", "uvs_write", "fin_read", "fin_send", "fin_purge"}

\* the vouch update an invalid target is settled with
InvalidTargetVerdict(target) ==
    [device_id |-> target, status |-> "Rejected", reason |-> "Invalid vouch target"]

\* the loop turns an invalid target straight into that update, touching neither
\* the wire, nor the key cache, nor the queue, and the update leaves the session
\* with a vouch for the target that is Rejected as an invalid target
C7_RejectedAtOnce ==
    \A t \in SpvSlots :
        /\ ( /\ tasks[t].pc = "spv_loop"
             /\ tasks'[t] # tasks[t]
             /\ tasks[t].i <= Len(tasks[t].targets)
             /\ tasks[t].targets[tasks[t].i] \in {Local, tasks[t].vouchee} )
           => /\ tasks'[t].pc = "uvs_keys"
              /\ tasks'[t].uvs = InvalidTargetVerdict(tasks[t].targets[tasks[t].i])
              /\ UNCHANGED <<net, vouching_keys, vouching_queue, vouching_sessions>>
        /\ ( /\ tasks[t].pc = "uvs_write"
             /\ tasks'[t] # tasks[t]
             /\ tasks[t].uvs.reason = "Invalid vouch target"
             /\ vouching_sessions[tasks[t].sid] # NoVouching )
           => \E j \in 1..Len(vouching_sessions'[tasks[t].sid].vouches) :
                 vouching_sessions'[tasks[t].sid].vouches[j] = tasks[t].uvs

\* no session key is cached, no queue entry exists and no request is on the wire
\* for the voucher or the vouchee as a target
C7_NoKeyNoEntry ==
    /\ \A sid \in SessionIds, d \in {Local, Vouchee} :
          /\ vouching_keys[<<sid, d>>] = NoKeys
          /\ ~HasRow(vouching_queue, sid, d)
    /\ \A m \in BagToSet(net) :
          m.type = "ProxyPairingRequest" => m.to \notin {NodeOf(Local), NodeOf(Vouchee)}

\* slot t takes a step while it settles an invalid target
SettlesInvalidTarget(t) ==
    /\ InTargetLoop(t)
    /\ tasks[t].i <= Len(tasks[t].targets)
    /\ tasks[t].targets[tasks[t].i] \in {Local, tasks[t].vouchee}
    /\ tasks'[t] # tasks[t]

HoldsProxied(d, p, by) ==
    /\ registry[d][p].state = "Paired"
    /\ registry[d][p].pairing_type = "Proxied"
    /\ registry[d][p].vouched_by = by

\* C4: with A paired with C, auto_vouch_to_all on A, auto_accept_vouched on C and
\* everyone connected, once A has paired with B, eventually C holds B and B holds
\* C, both as Paired, Proxied and vouched by A.
C4_AutoVouchReachesBoth ==
    HasInfo(Local, Vouchee)
        ~> (HoldsProxied("C", Vouchee, Local) /\ HoldsProxied(Vouchee, "C", Local))

\* the target has stored the vouchee, and the vouchee has been told of a session
\* that nobody accepted
C4_TargetPairedVoucheeNot ==
    /\ HoldsProxied("C", Vouchee, Local)
    /\ registry[Vouchee]["C"] = NoPeer
    /\ net = EmptyBag
    /\ \A t \in TaskIds : tasks[t].pc \in {"idle", "done"}
    /\ vouching_queue = <<>>

\* ----------------------------------------------------- claims on the target
\* C8: a vouchee is stored on a target because of a ProxyPairingRequest only if,
\* when the request was handled, the claimed voucher was paired with a persisted
\* record that is Trusted and Direct, the vouchee was unknown, the signature was
\* the voucher's signature of the payload, the timestamp was at most
\* vouch_signature_max_age old and the two proxied session keys differed.
C8_StoredOnlyIfVouched ==
    \A s \in stores :
        /\ s.facts.voucher_trusted_direct
        /\ s.facts.vouchee_unknown
        /\ s.facts.signed_by_voucher
        /\ s.facts.fresh
        /\ s.facts.keys_distinct

\* a vouchee has been stored on a request that carried another device's signature
C8_StoredOnForeignSignature ==
    \E s \in stores : ~s.facts.signed_by_voucher

\* C9: a ProxyPairingRequest is accepted, stored at once or stashed for
\* confirmation, only if its sender's node id is the node id the registry holds
\* for the claimed voucher.
C9_AcceptedOnlyFromVoucher ==
    /\ \A s \in stores : s.facts.sender_is_voucher
    /\ \A d \in TargetDevices, sid \in SessionIds :
          pending[d][sid] # NoPending => pending[d][sid].facts.sender_is_voucher

\* a request is stashed for confirmation although its sender is not the voucher
C9_StashedFromStranger ==
    \E d \in TargetDevices, sid \in SessionIds :
        /\ pending[d][sid] # NoPending
        /\ ~pending[d][sid].facts.sender_is_voucher

\* the step handles request m on target d
Handled(d, m) ==
    /\ m.type = "ProxyPairingRequest"
    /\ m.to = NodeOf(d)
    /\ CopiesIn(m, net') < CopiesIn(m, net)

\* C10: every ProxyPairingRequest that fails a validation step is answered with
\* a ProxyPairingResponse of accepted = false and a reason, sent to the sender,
\* and leaves the registry and the pending confirmations unchanged.
C10_FailureIsAnswered ==
    [][\A d \in TargetDevices, m \in Messages :
          (Handled(d, m) /\ Verdict(d, m) # "ok")
          => /\ \E r \in BagToSet(net') :
                   /\ Sent(r)
                   /\ r.type = "ProxyPairingResponse"
                   /\ r.to = m.from
                   /\ r.session_id = m.session_id
                   /\ ~r.accepted
                   /\ r.reason # None
             /\ UNCHANGED <<registry, pending>>]_vars

\* a request has been rejected for its stale timestamp
C10_StaleRequestRejected ==
    \E r \in Messages :
        /\ r.type = "ProxyPairingResponse"
        /\ ~r.accepted
        /\ r.reason = "Vouch signature expired"

\* ------------------------------------------------ claims on duplicate requests
\* request m was accepted by target d before: its vouchee was stored because of
\* it, or it is stashed for confirmation
AppliedBefore(d, m) ==
    \/ \E s \in stores : s.target = d /\ s.vouchee = m.vouchee_device_id
    \/ /\ pending[d][m.session_id] # NoPending
       /\ pending[d][m.session_id].voucher_device_id = m.voucher_device_id
       /\ pending[d][m.session_id].vouchee_device_id = m.vouchee_device_id
       /\ pending[d][m.session_id].proxied_session_keys = m.proxied_session_keys

\* C11: the second handling of a ProxyPairingRequest the target has accepted
\* (stored at once or stashed) answers with accepted = false and reason
\* "Device already paired" and changes neither the registry nor the pending
\* confirmations.
C11_SecondRequestRejected ==
    [][\A d \in TargetDevices, m \in Messages :
          (Handled(d, m) /\ AppliedBefore(d, m))
          => /\ \E r \in BagToSet(net') :
                   /\ Sent(r)
                   /\ r.type = "ProxyPairingResponse"
                   /\ r.to = m.from
                   /\ ~r.accepted
                   /\ r.reason = "Device already paired"
             /\ UNCHANGED <<registry, pending>>]_vars

\* the second copy of an auto-accepted request has been rejected as already paired
C11_SecondCopyAlreadyPaired ==
    /\ stores # {}
    /\ \E r \in Messages :
          /\ r.type = "ProxyPairingResponse"
          /\ ~r.accepted
          /\ r.reason = "Device already paired"

\* the confirmation timer removes the pending confirmation of session sid on d
TimerRemoves(d, sid) ==
    /\ pending[d][sid] # NoPending
    /\ pending'[d][sid] = NoPending
    /\ timers' # timers

\* C12: a confirmation timer removes a pending confirmation only when
\* vouch_response_timeout has elapsed since the confirmation was stashed, and
\* it then sends the voucher a ProxyPairingResponse with accepted = false and
\* reason "Proxy confirmation timed out".
C12_TimerRemovesAtTimeout ==
    [][\A d \in TargetDevices, sid \in SessionIds :
          TimerRemoves(d, sid)
          => /\ now >= pending[d][sid].created_at + proxy_config[d].vouch_response_timeout
             /\ \E r \in BagToSet(net') :
                   /\ Sent(r)
                   /\ r.type = "ProxyPairingResponse"
                   /\ r.to = NodeOf(pending[d][sid].voucher_device_id)
                   /\ r.session_id = sid
                   /\ ~r.accepted
                   /\ r.reason = "Proxy confirmation timed out"]_vars

\* a confirmation has timed out and the voucher is being told
C12_TimedOutReported ==
    /\ \A d \in TargetDevices, sid \in SessionIds : pending[d][sid] = NoPending
    /\ \E r \in Messages :
          /\ r.type = "ProxyPairingResponse"
          /\ r.reason = "Proxy confirmation timed out"

\* ------------------------------------------- claims on the voucher's handlers
\* the response handler in slot t takes the step at position pc
RespStep(t, pc) ==
    /\ t \in RespSlots
    /\ tasks[t].pc = pc
    /\ tasks'[t] # tasks[t]

\* the vouch a response asks for
VouchOfResponse(m) ==
    [device_id |-> m.accepting_device_id,
     status |-> IF m.accepted THEN "Accepted" ELSE "Rejected",
     reason |-> m.reason]

ReportedReason(v) == IF v.reason = None THEN "Vouch rejected" ELSE v.reason

\* C14: the ProxyPairingComplete a finalization sends lists in accepted_by only
\* devices whose vouch, in the session as the finalization read it, is Accepted
\* and for which the registry has device info and the cache has the vouchee's
\* keys (the keys it reports); it lists in rejected_by exactly the devices whose
\* vouch is Rejected or Unreachable, with the stored reason or "Vouch rejected";
\* and no device is in both lists.
C14_ReportMatchesVouches ==
    [][\A t \in TaskIds : \A m \in BagToSet(net') :
          ( /\ tasks[t].pc = "fin_send"
            /\ tasks'[t] # tasks[t]
            /\ Sent(m)
            /\ m.type = "ProxyPairingComplete" )
          => LET vouches == tasks[t].snap.vouches
                 sid == tasks[t].snap.id
             IN  /\ m.session_id = sid
                 /\ \A a \in SeqToSet(m.accepted_by) :
                       /\ \E j \in 1..Len(vouches) :
                             /\ vouches[j].device_id = a.device_id
                             /\ vouches[j].status = "Accepted"
                       /\ HasInfo(Local, a.device_id)
                       /\ vouching_keys[<<sid, a.device_id>>] # NoKeys
                       /\ a.session_keys = vouching_keys[<<sid, a.device_id>>]
                 /\ \A r \in SeqToSet(m.rejected_by) :
                       \E j \in 1..Len(vouches) :
                          /\ vouches[j].device_id = r.device_id
                          /\ vouches[j].status \in {"Rejected", "Unreachable"}
                          /\ r.reason = ReportedReason(vouches[j])
                 /\ \A j \in 1..Len(vouches) :
                       vouches[j].status \in {"Rejected", "Unreachable"}
                       => \E r \in SeqToSet(m.rejected_by) :
                             /\ r.device_id = vouches[j].device_id
                             /\ r.reason = ReportedReason(vouches[j])
                 /\ \A a \in SeqToSet(m.accepted_by), r \in SeqToSet(m.rejected_by) :
                       a.device_id # r.device_id]_vars

\* a report names a target that never answered as rejected, with the drainer's reason
C14_UnreachableReported ==
    \E m \in Messages :
        /\ m.type = "ProxyPairingComplete"
        /\ m.accepted_by = <<>>
        /\ m.rejected_by = <<[device_id |-> "C", reason |-> "Proxy response timeout"]>>

\* two key sets are each other's send/receive swap, with two different keys
Agree(target_keys, vouchee_keys) ==
    /\ vouchee_keys = SwapKeys(target_keys)
    /\ target_keys.send_key = vouchee_keys.receive_key
    /\ target_keys.receive_key = vouchee_keys.send_key
    /\ target_keys.send_key # target_keys.receive_key

\* C15: the keys an AcceptedDevice reports to the vouchee are the send/receive
\* swap of the proxied_session_keys of every ProxyPairingRequest the voucher
\* sends to that target for the session, the first send and a drainer resend
\* alike (the request on the wire, the queue entry a resend copies them from,
\* and the cache the report reads them from agree), so that once the target and
\* the vouchee have both stored their keys, one's send_key is the other's
\* receive_key, and the two keys differ.
C15_ProxiedKeysAgree ==
    /\ \A q \in Messages, m \in Messages :
          ( /\ q.type = "ProxyPairingRequest" /\ q.from = NodeOf(Local)
            /\ m.type = "ProxyPairingComplete" /\ m.session_id = q.session_id )
          => \A a \in SeqToSet(m.accepted_by) :
                a.device_id = q.to => Agree(q.proxied_session_keys, a.session_keys)
    /\ \A q \in Messages : \A target \in Devices :
          ( /\ q.type = "ProxyPairingRequest" /\ q.from = NodeOf(Local)
            /\ q.to = NodeOf(target)
            /\ vouching_keys[<<q.session_id, target>>] # NoKeys )
          => Agree(q.proxied_session_keys, vouching_keys[<<q.session_id, target>>])
    /\ \A j \in 1..Len(vouching_queue) :
          LET e == vouching_queue[j]
          IN  vouching_keys[<<e.session_id, e.target_device_id>>] # NoKeys
              => Agree(e.proxied_session_keys,
                       vouching_keys[<<e.session_id, e.target_device_id>>])
    /\ \A target \in TargetDevices :
          (HoldsProxied(target, Vouchee, Local) /\ HoldsProxied(Vouchee, target, Local))
          => Agree(registry[target][Vouchee].keys, registry[Vouchee][target].keys)

\* the target and the vouchee have both stored the keys of a vouch
C15_BothSidesHoldKeys ==
    /\ HoldsProxied("C", Vouchee, Local)
    /\ HoldsProxied(Vouchee, "C", Local)
    /\ registry["C"][Vouchee].keys # NoKeys
    /\ registry[Vouchee]["C"].keys # NoKeys

\* C16: when the voucher restarts with entries in the queue, the restart leaves
\* every entry as it was, and the drainer of the new process goes on delivering
\* them: it never deletes an entry because the entry's vouching session is not
\* known (an entry leaves the queue answered, resent and answered, or timed out).
C16_QueueSurvivesRestart ==
    [][/\ (queue_open /\ ~queue_open') => vouching_queue' = vouching_queue
       /\ (tasks["drain"].pc = "dr_rm" /\ vouching_queue' # vouching_queue)
          => tasks["drain"].result # "gone"]_vars

\* the new process has reopened the queue: the entry is there, its session is not
C16_EntryWithoutSession ==
    /\ queue_open
    /\ \E j \in 1..Len(vouching_queue) :
          /\ vouching_queue[j].status \in {"queued", "waiting"}
          /\ vouching_sessions[vouching_queue[j].session_id] = NoVouching

\* the status of the first vouch of the session for the device, None if there is none
StatusOfVouch(sid, device) ==
    LET session == vouching_sessions[sid]
    IN  IF session = NoVouching \/ ~HasVouch(session.vouches, device) THEN None
        ELSE LET j == CHOOSE k \in 1..Len(session.vouches) :
                        /\ session.vouches[k].device_id = device
                        /\ \A l \in 1..(k - 1) : session.vouches[l].device_id # device
             IN  session.vouches[j].status

\* the queue holds the row of (session, device) in the given status
RowIs(sid, device, status) ==
    \E j \in 1..Len(vouching_queue) :
        /\ SameKey(vouching_queue[j], sid, device)
        /\ vouching_queue[j].status = as_str(status)

\* a ProxyPairingComplete of the session is on its way to the vouchee and names
\* the device as accepted
ReportedAccepted(sid, device) ==
    \E m \in Messages :
        /\ m.type = "ProxyPairingComplete"
        /\ m.session_id = sid
        /\ \E a \in SeqToSet(m.accepted_by) : a.device_id = device

\* C17: a vouch to a target that is offline when start_proxy_vouching runs stays
\* Queued with a Queued entry; when the target has connected, the drainer pass
\* that sends the entry's request sets the entry Waiting, with retry_count one
\* more than it was and last_attempt_at stamped, and sets the vouch Waiting; and
\* the target's acceptance then makes the vouch Accepted and has the voucher
\* send the vouchee a ProxyPairingComplete that reports it.
C17_OfflineTargetIsServedLater ==
    /\ [][/\ \A t \in SpvSlots :
               ( /\ tasks[t].pc = "spv_send" /\ tasks'[t] # tasks[t]
                 /\ ~is_node_connected(tasks[t].targets[tasks[t].i]) )
               => /\ net' = net
                  /\ tasks'[t].uvs.status = "Queued"
                  /\ queue_open => RowIs(tasks[t].sid, tasks[t].targets[tasks[t].i], "Queued")
          /\ (tasks["drain"].pc = "dr_qupd" /\ tasks["drain"].result = "sent"
              /\ tasks'["drain"] # tasks["drain"])
             => LET e == tasks["drain"].entries[tasks["drain"].i]
                IN  /\ HasRow(vouching_queue, e.session_id, e.target_device_id)
                       => \E j \in 1..Len(vouching_queue') :
                             /\ SameKey(vouching_queue'[j], e.session_id, e.target_device_id)
                             /\ vouching_queue'[j].status = "waiting"
                             /\ vouching_queue'[j].retry_count = e.retry_count + 1
                             /\ vouching_queue'[j].last_attempt_at # NoTime
                    /\ tasks'["drain"].uvs.status = "Waiting"]_vars
    /\ \A sid \in SessionIds, target \in TargetDevices :
          /\ ( /\ StatusOfVouch(sid, target) = "Queued"
               /\ RowIs(sid, target, "Queued")
               /\ target \in connected )
             ~> StatusOfVouch(sid, target) = "Accepted"
          /\ ( /\ StatusOfVouch(sid, target) = "Queued"
               /\ RowIs(sid, target, "Queued")
               /\ target \in connected )
             ~> ReportedAccepted(sid, target)

\* the offline target connected, got the resent request and stored the vouchee,
\* and everything has come to rest with the vouch not Accepted and the vouchee
\* without the target
C17_ServedButNotReported ==
    /\ HoldsProxied("C", Vouchee, Local)
    /\ \E sid \in SessionIds : StatusOfVouch(sid, "C") = "Waiting"
    /\ registry[Vouchee]["C"] = NoPeer
    /\ net = EmptyBag
    /\ \A t \in TaskIds : tasks[t].pc \in {"idle", "done"}
    /\ vouching_queue = <<>>

\* the drainer pass examines entry e of its list in this step
DrainExamines(e) ==
    /\ tasks["drain"].pc = "dr_loop"
    /\ tasks["drain"].i <= Len(tasks["drain"].entries)
    /\ e = tasks["drain"].entries[tasks["drain"].i]
    /\ tasks'["drain"] # tasks["drain"]

\* the pass goes on to remove the entry it examines, for the given reason
DrainGivesUp(reason) ==
    /\ tasks'["drain"].pc = "dr_rm"
    /\ tasks'["drain"].result = reason

\* the entry is Waiting and its last attempt is more than vouch_response_timeout
\* before the pass
TimedOutEntry(e, passNow) ==
    /\ e.status = "Waiting"
    /\ e.last_attempt_at # NoTime
    /\ passNow - e.last_attempt_at > proxy_config[Local].vouch_response_timeout

\* what a pass that gave up on an entry for the given reason does next: it
\* deletes the entry and sets the vouch Unreachable with the reason
GivenUpIsRecorded(reason) ==
    LET rec == tasks["drain"]
        sid == rec.sid
    IN  /\ (rec.pc = "dr_rm" /\ rec.result = reason /\ tasks'["drain"] # rec)
           => LET e == rec.entries[rec.i]
              IN  /\ ~HasRow(vouching_queue', e.session_id, e.target_device_id)
                  /\ tasks'["drain"].uvs =
                        [device_id |-> e.target_device_id, status |-> "Unreachable",
                         reason |-> reason]
        /\ ( /\ rec.pc = "uvs_write" /\ rec.uvs.reason = reason
             /\ tasks'["drain"] # rec /\ vouching_sessions[sid] # NoVouching )
           => \E j \in 1..Len(vouching_sessions'[sid].vouches) :
                 vouching_sessions'[sid].vouches[j] = rec.uvs

\* and the report its finalization sends names the target in rejected_by with
\* the reason
GivenUpIsReported(reason) ==
    LET rec == tasks["drain"]
    IN  /\ GivenUpIsRecorded(reason)
        /\ \A m \in BagToSet(net') :
              ( /\ rec.pc = "fin_send" /\ rec.uvs.reason = reason
                /\ tasks'["drain"] # rec
                /\ Sent(m) /\ m.type = "ProxyPairingComplete" )
              => \E r \in SeqToSet(m.rejected_by) :
                    r = [device_id |-> rec.uvs.device_id, reason |-> reason]

\* C18 as stated: a drainer pass that finds an entry Waiting with more than
\* vouch_response_timeout elapsed since last_attempt_at removes the entry, sets the
\* vouch Unreachable with reason "Proxy response timeout", and the vouchee is sent
\* that target in rejected_by with that reason.
C18_WaitingTimesOut ==
    [][/\ \A e \in SeqToSet(tasks["drain"].entries) :
             (DrainExamines(e) /\ TimedOutEntry(e, tasks["drain"].ts))
             => DrainGivesUp("Proxy response timeout")
       /\ GivenUpIsReported("Proxy response timeout")]_vars

\* the pass timed the entry out and finalized the session, and the report on its
\* way to the vouchee does not name the target
C18_TimedOutButNotReported ==
    /\ tasks["drain"].pc = "fin_purge"
    /\ tasks["drain"].uvs =
          [device_id |-> "C", status |-> "Unreachable", reason |-> "Proxy response timeout"]
    /\ \E m \in Messages :
          /\ m.type = "ProxyPairingComplete"
          /\ m.session_id = tasks["drain"].sid
          /\ m.rejected_by = <<>>

\* C19: a drainer pass that finds an entry whose vouching session exists and
\* whose expires_at is not after the pass's now deletes the entry and sets the
\* vouch Unreachable with reason "Vouch expired", whatever the entry's status
\* and retry_count and whether or not the target is connected.
C19_ExpiredEntryIsDropped ==
    [][/\ \A e \in SeqToSet(tasks["drain"].entries) :
             ( /\ DrainExamines(e)
               /\ vouching_sessions[e.session_id] # NoVouching
               /\ tasks["drain"].ts >= e.expires_at )
             => DrainGivesUp("Vouch expired")
       /\ GivenUpIsRecorded("Vouch expired")]_vars

\* an entry was dropped at the very instant of its expires_at
C19_ExpiredAtTheInstant ==
    \E sid \in SessionIds :
        /\ vouching_sessions[sid] # NoVouching
        /\ vouching_sessions[sid].vouches =
              <<[device_id |-> "C", status |-> "Unreachable", reason |-> "Vouch expired"]>>
        /\ ~HasRow(vouching_queue, sid, "C")
        /\ now = QueueExpirySecs

RequestsSent(sid, target) ==
    LET reqs == {m \in Messages : /\ m.type = "ProxyPairingRequest"
                                  /\ m.from = NodeOf(Local)
                                  /\ m.to = NodeOf(target)
                                  /\ m.session_id = sid}
    IN  BagCardinality([m \in reqs |-> net[m]])

\* no handler of the voucher is between a send and the write that counts it
Quiescent == \A t \in TaskIds : tasks[t].pc \in {"idle", "done"}

\* C21: with a target that consumes nothing, so that every request sent is still
\* on the wire: for every (session, target) the voucher has sent at most
\* vouch_queue_retry_limit requests, and once its handlers have returned, the
\* retry_count of the entry is the number of requests sent.
C21_RetriesBoundedAndCounted ==
    \A sid \in SessionIds, target \in TargetDevices :
        /\ RequestsSent(sid, target) <= proxy_config[Local].vouch_queue_retry_limit
        /\ Quiescent
           => \A j \in 1..Len(vouching_queue) :
                 SameKey(vouching_queue[j], sid, target)
                 => vouching_queue[j].retry_count = RequestsSent(sid, target)

\* start_proxy_vouching and a drainer pass have both sent the request, and the
\* entry counts one attempt
C21_TwoSendsCountedOnce ==
    /\ Quiescent
    /\ \E j \in 1..Len(vouching_queue) :
          /\ vouching_queue[j].retry_count = 1
          /\ RequestsSent(vouching_queue[j].session_id,
                          vouching_queue[j].target_device_id) = 2

\* no two rows of the queue have the same (session_id, target_device_id)
OneRowPerKey(q) ==
    \A j, k \in 1..Len(q) : SameKey(q[j], q[k].session_id, q[k].target_device_id) => j = k

\* the rows of q other than the row of e's key, in order
OtherRows(q, e) ==
    SelectSeq(q, LAMBDA row : ~SameKey(row, e.session_id, e.target_device_id))

\* C22: the queue holds at most one row per (session_id, target_device_id), and
\* every operation keeps it so; upsert_entry leaves exactly one row for the
\* entry's key, equal to the entry in every field, and the other rows as they
\* were; remove_entry of a key that has no row changes nothing.
C22_OneRowPerKey ==
    /\ OneRowPerKey(vouching_queue)
    /\ \A e \in QueueEntries :
          LET q == upsert_entry(vouching_queue, e)
              mine == SelectSeq(q, LAMBDA row :
                          SameKey(row, e.session_id, e.target_device_id))
          IN  /\ OneRowPerKey(q)
              /\ Len(mine) = 1
              /\ EntryOf(mine[1]) = e
              /\ OtherRows(q, e) = OtherRows(vouching_queue, e)
              /\ OneRowPerKey(update_status(vouching_queue, e.session_id,
                                  e.target_device_id, e.status, e.retry_count,
                                  e.last_attempt_at))
              /\ OneRowPerKey(remove_entry(vouching_queue, e.session_id,
                                           e.target_device_id))
              /\ ~HasRow(vouching_queue, e.session_id, e.target_device_id)
                 => remove_entry(vouching_queue, e.session_id, e.target_device_id)
                       = vouching_queue
    /\ \A t \in {DefaultResponseTimeout, QueueExpirySecs} :
          OneRowPerKey(remove_expired(vouching_queue, t))

\* the queue holds a row of each of two keys, one of them rewritten by an
\* upsert or update after it was inserted, and an upsert of either key is due
C22_TwoKeysOneRewritten ==
    /\ Len(vouching_queue) = 2
    /\ HasRow(vouching_queue, "s1", "C")
    /\ HasRow(vouching_queue, "s1", "D")
    /\ vouching_queue[1].status = "waiting"
    /\ vouching_queue[1].retry_count = 1
    /\ vouching_queue[2].status = "queued"

\* C23: every entry of the vouch queue whose status is Waiting has a
\* last_attempt_at and a retry_count of at least 1 (so the drainer's
\* response-timeout test applies to it).
C23_WaitingHasLastAttempt ==
    \A j \in 1..Len(vouching_queue) :
        LET e == EntryOf(vouching_queue[j])
        IN  e.status = "Waiting"
            => /\ e.last_attempt_at # NoTime
               /\ e.retry_count >= 1
               /\ (now - e.last_attempt_at > proxy_config[Local].vouch_response_timeout
                   /\ vouching_sessions[e.session_id] # NoVouching
                   /\ e.expires_at > now
                   /\ e.retry_count < proxy_config[Local].vouch_queue_retry_limit)
                  => DrainBranch(e, now) = "Proxy response timeout"

\* a Waiting entry whose answer is overdue is in the queue
C23_WaitingEntryOverdue ==
    \E j \in 1..Len(vouching_queue) :
        /\ EntryOf(vouching_queue[j]).status = "Waiting"
        /\ now - vouching_queue[j].last_attempt_at
              > proxy_config[Local].vouch_response_timeout

\* the target has accepted the vouch and its response has been taken off the wire
ResponseHandled(sid, target) ==
    /\ HoldsProxied(target, Vouchee, Local)
    /\ vouching_sessions[sid] # NoVouching
    /\ \A m \in Messages :
          ~(m.type \in {"ProxyPairingRequest", "ProxyPairingResponse"}
            /\ m.session_id = sid)

\* C24: however a drainer pass and the handling of the ProxyPairingResponse of
\* the same (session, target) interleave, once both have run to their end the
\* queue has no entry for the key (none is created again) and the vouch has the
\* terminal status the response decided.
C24_DrainerAndResponseConverge ==
    \A sid \in SessionIds, target \in TargetDevices :
        (Quiescent /\ ResponseHandled(sid, target))
        => /\ ~HasRow(vouching_queue, sid, target)
           /\ StatusOfVouch(sid, target) = "Accepted"

\* both have run to their end: the entry is gone, and the vouch the response
\* had set Accepted is back to a status that waits for a response
C24_AcceptedVouchLeftWaiting ==
    \E sid \in SessionIds :
        /\ Quiescent
        /\ ResponseHandled(sid, "C")
        /\ ~HasRow(vouching_queue, sid, "C")
        /\ vouching_sessions[sid].state = "Completed"
        /\ StatusOfVouch(sid, "C") = "Waiting"

\* the stream handler takes the next frame of the stream in this step
TakesFrameOf(stream) ==
    /\ stream.type = "Stream"
    /\ CopiesIn(stream, net') < CopiesIn(stream, net)

\* C25: a frame whose declared length is more than 1,048,576 ends the stream
\* handler: its payload is not handed on, the rest of the stream is not read,
\* and no pairing session, vouching session, queue entry, registry record or
\* pending confirmation changes; a frame of exactly 1,048,576 is read and its
\* message handed on.
C25_OversizedFrameEndsStream ==
    [][\A stream \in Messages :
          TakesFrameOf(stream)
          => LET frame == Head(stream.frames)
             IN  /\ frame.msg_len > 1048576
                    => /\ net' = Take(net, stream)
                       /\ UNCHANGED <<active_sessions, pairing_codes, vouching_sessions,
                                      vouching_keys, vouching_queue, registry, pending,
                                      timers, stores, tasks>>
                 /\ frame.msg_len = 1048576
                    => CopiesIn(frame.payload, net') > CopiesIn(frame.payload, net)]_vars

\* the handler has handed on the message of a first frame, and the next frame
\* of the stream declares one byte more than the maximum
C25_OversizedFrameIsNext ==
    \E stream \in Messages, m \in Messages :
        /\ stream.type = "Stream"
        /\ Len(stream.frames) = 1
        /\ stream.frames[1].msg_len = 1048577
        /\ m.type = "ProxyPairingRequest"

\* the place of a state on its path of the state machine
StateRank(state) ==
    CASE state \in {"WaitingForConnection", "Scanning"} -> 1
      [] state \in {"ChallengeSent", "ResponsePending"} -> 2
      [] state \in {"AwaitingResponse", "ResponseSent"} -> 3
      [] state = "Completed" -> 4
      [] OTHER -> 5

\* C26: as long as a pairing session is in the map its created_at stays what it
\* was and its state stays or advances: a Failed session stays Failed, a
\* Completed session moves to nothing but Failed, and no session moves back.
C26_SessionsOnlyAdvance ==
    [][\A sid \in SessionIds :
          (active_sessions[sid] # NoSession /\ active_sessions'[sid] # NoSession)
          => /\ active_sessions'[sid].created_at = active_sessions[sid].created_at
             /\ StateRank(active_sessions'[sid].state)
                   >= StateRank(active_sessions[sid].state)
             /\ active_sessions[sid].state = "Failed"
                   => active_sessions'[sid].state = "Failed"]_vars

\* a session that the driver or a handler has marked Failed
C26_FailedSession ==
    \E sid \in SessionIds :
        /\ active_sessions[sid] # NoSession
        /\ active_sessions[sid].state = "Failed"

\* a PairingRequest for an existing session is taken off the wire and its
\* handling returns an error
FailsInHandling(m) ==
    /\ m.type = "PairingRequest"
    /\ CopiesIn(m, net') < CopiesIn(m, net)
    /\ PairingRequestError(m) # None
    /\ active_sessions[m.session_id] # NoSession

\* C27: when the handling of an inbound pairing message returns an error, the
\* pairing session that the message names is Failed afterwards and its reason
\* is the error, on the request path and on the stream path alike.
C27_ErrorFailsTheSession ==
    [][\A m \in Messages :
          FailsInHandling(m)
          => /\ active_sessions'[m.session_id] # NoSession
             /\ active_sessions'[m.session_id].state = "Failed"
             /\ active_sessions'[m.session_id].reason = PairingRequestError(m)]_vars

\* the request path has failed a session because of a request it could not
\* handle
C27_FailedByRequestHandler ==
    \E sid \in SessionIds :
        /\ active_sessions[sid] # NoSession
        /\ active_sessions[sid].state = "Failed"
        /\ active_sessions[sid].reason \in {"Invalid public key", "Session in wrong state"}

\* a step of the running handler that starts, joins or removes a session, fails
\* it, or sends its pending response
MutatesSessions ==
    /\ ~(queue_open /\ ~queue_open')            \* not the restart of the process
    /\ \E sid \in SessionIds :
          \/ (active_sessions[sid] = NoSession) # (active_sessions'[sid] = NoSession)
          \/ /\ active_sessions[sid] # NoSession
             /\ active_sessions'[sid] # NoSession
             /\ \/ active_sessions'[sid].created_at # active_sessions[sid].created_at
                \/ /\ active_sessions'[sid].state # active_sessions[sid].state
                   /\ active_sessions'[sid].state \in {"Failed", "ResponseSent"}

\* C28: after every operation that changes the set of active pairing sessions
\* (start, join, cancel, a driver transition, expiry cleanup, marking a session
\* Failed, removal on disconnect) the saved snapshot is the in-memory set, so
\* that a restart resumes exactly the sessions that were in memory.
C28_SnapshotFollowsSessions ==
    [][MutatesSessions => persistence' = active_sessions']_vars

\* the snapshot holds a session in a state that it has left in memory
C28_SnapshotIsStale ==
    \E sid \in SessionIds :
        /\ \A t \in TaskIds : tasks[t].pc = "idle"
        /\ active_sessions[sid] # NoSession
        /\ persistence[sid] # NoSession
        /\ active_sessions[sid].state = "Failed"
        /\ persistence[sid].state # "Failed"

\* C29: every active pairing session has its pairing code and every stored
\* pairing code belongs to an active pairing session.
C29_OneCodePerSession ==
    \A sid \in SessionIds :
        (active_sessions[sid] # NoSession) <=> (pairing_codes[sid] # NoSecret)

\* a session loaded from the snapshot is active and has no code
C29_SessionWithoutCode ==
    \E sid \in SessionIds :
        /\ active_sessions[sid] # NoSession
        /\ active_sessions[sid] = persistence[sid]
        /\ pairing_codes[sid] = NoSecret

\* the devices create_vouching_session has to vouch the new device to
OtherPairedDevices(vouchee) == get_paired_devices(Local) \ {Local, vouchee}

\* C30: with auto_vouch_to_all set, once create_vouching_session has returned
\* the vouching session is no longer Pending and its vouches are for exactly the
\* paired devices other than the voucher and the vouchee, also when there is no
\* such device.
C30_AutoVouchCoversPairedDevices ==
    \A t \in SpvSlots, sid \in SessionIds :
        (/\ tasks[t].pc = "done"
         /\ proxy_config[Local].auto_vouch_to_all
         /\ vouching_sessions[sid] # NoVouching)
        => LET session == vouching_sessions[sid] IN
           /\ session.state # "Pending"
           /\ {session.vouches[j].device_id : j \in 1..Len(session.vouches)}
                 = OtherPairedDevices(session.vouchee_device_id)

\* create_vouching_session has returned on a voucher whose only paired device
\* is the vouchee, and the session is Pending
C30_PendingAfterAutoVouch ==
    \E t \in SpvSlots, sid \in SessionIds :
        /\ tasks[t].pc = "done"
        /\ proxy_config[Local].auto_vouch_to_all
        /\ vouching_sessions[sid] # NoVouching
        /\ OtherPairedDevices(vouching_sessions[sid].vouchee_device_id) = {}
        /\ vouching_sessions[sid].state = "Pending"

\* start_proxy_vouching has returned the session of the call
StartSucceeded(sid) ==
    /\ vouching_sessions[sid] # NoVouching
    /\ \E t \in SpvSlots : /\ tasks[t].pc = "done"
                           /\ tasks[t].result = "ok"
                           /\ tasks[t].retval # NoVouching

\* the queue still holds an entry of the session, which a later drainer pass
\* resends, times out or expires
HasEntry(sid) ==
    \E j \in 1..Len(vouching_queue) : vouching_queue[j].session_id = sid

\* C31: a vouching session on which start_proxy_vouching succeeded reaches
\* Completed, when the queue is initialized and every task keeps running: no
\* such session stays short of Completed once the queue holds no entry of it.
C31_StartedSessionCompletes ==
    \A sid \in SessionIds :
        StartSucceeded(sid) ~> (\/ vouching_sessions[sid] = NoVouching
                                \/ vouching_sessions[sid].state = "Completed"
                                \/ HasEntry(sid))

\* every task has returned, nothing is in flight, the session is InProgress
\* with a Waiting vouch, and the queue is empty
C31_WaitingWithoutEntry ==
    \E sid \in SessionIds :
        /\ StartSucceeded(sid)
        /\ Quiescent
        /\ net = EmptyBag
        /\ vouching_queue = <<>>
        /\ vouching_sessions[sid].state = "InProgress"
        /\ \E j \in 1..Len(vouching_sessions[sid].vouches) :
              vouching_sessions[sid].vouches[j].status = "Waiting"

\* the devices a session has vouches for
VouchDevices(session) ==
    IF session = NoVouching THEN {}
    ELSE {session.vouches[j].device_id : j \in 1..Len(session.vouches)}

\* C32: a vouching session has at most one VouchState per device, whatever
\* target list start_proxy_vouching was given and whatever responses arrive, and
\* a device gets a VouchState only as a target of a start_proxy_vouching call.
C32_OneVouchPerTarget ==
    /\ [](\A sid \in SessionIds :
            vouching_sessions[sid] # NoVouching
            => \A j, k \in 1..Len(vouching_sessions[sid].vouches) :
                  vouching_sessions[sid].vouches[j].device_id
                     = vouching_sessions[sid].vouches[k].device_id => j = k)
    /\ [][\A sid \in SessionIds :
            \A d \in VouchDevices(vouching_sessions'[sid])
                        \ VouchDevices(vouching_sessions[sid]) :
               \E t \in SpvSlots : /\ tasks[t].pc = "spv_seed"
                                    /\ tasks[t].sid = sid
                                    /\ d \in SeqToSet(tasks[t].targets)]_vars

\* the session of a call that named C twice has two vouches for C
C32_TwoVouchesForOneDevice ==
    \E sid \in SessionIds :
        /\ vouching_sessions[sid] # NoVouching
        /\ Len(vouching_sessions[sid].vouches) = 2
        /\ vouching_sessions[sid].vouches[1].device_id = "C"
        /\ vouching_sessions[sid].vouches[2].device_id = "C"

\* the record device d stores for peer p in this step is a Proxied one
StoresProxied(d, p) ==
    /\ registry'[d][p] # registry[d][p]
    /\ registry'[d][p].state = "Paired"
    /\ registry'[d][p].pairing_type = "Proxied"

\* C33: a device stores a peer as Proxied with vouched_by = V only if V is, on
\* that device, a peer paired by direct pairing; the vouchee stores the accepted
\* devices of a ProxyPairingComplete only when the message comes from such a
\* voucher.
C33_ProxiedOnlyThroughDirectVoucher ==
    [][\A d, p \in Devices :
          StoresProxied(d, p)
          => LET voucher == registry'[d][p].vouched_by IN
             /\ voucher \in Devices
             /\ registry[d][voucher].state = "Paired"
             /\ registry[d][voucher].pairing_type = "Direct"
             /\ d = Vouchee
                => \E m \in Messages : /\ m.type = "ProxyPairingComplete"
                                        /\ m.from = registry[d][voucher].node_id]_vars

\* the vouchee, paired with nobody, holds a Proxied record vouched for by a
\* device it has no record of
C33_ProxiedWithoutVoucher ==
    \E p \in Devices :
        /\ registry[Vouchee][p].state = "Paired"
        /\ registry[Vouchee][p].pairing_type = "Proxied"
        /\ registry[Vouchee][p].vouched_by \in Devices
        /\ registry[Vouchee][registry[Vouchee][p].vouched_by].state = "NoPeer"

\* the lock guards alive at the position of the task in slot t: the registry
\* read guard start_proxy_vouching takes at line 1166 lives to the end of the
\* block at line 1195, across the send of line 1179; finalization (860-863) and
\* the drainer (1694-1700) read the registry in a block of its own
LocksHeld(t) ==
    IF tasks[t].pc = "spv_send" THEN {"device_registry"} ELSE {}

\* the task in slot t dispatches a send command in this step
Dispatches(t) ==
    /\ tasks'[t] # tasks[t]
    /\ \E m \in BagToSet(net') : CopiesIn(m, net') > CopiesIn(m, net)

\* C34: no task holds any of the handler's locks (active sessions, vouching
\* sessions, key cache, pending confirmations, device registry) at the moment
\* it performs a network send or dispatches a send command.
C34_NoLockHeldAtSend ==
    [][\A t \in TaskIds : Dispatches(t) => LocksHeld(t) = {}]_vars

\* start_proxy_vouching has just sent its request to C
C34_RequestSentByStart ==
    /\ \E t \in SpvSlots : tasks[t].pc = "spv_qupdate"
    /\ \E m \in Messages : m.type = "ProxyPairingRequest" /\ m.to = NodeOf("C")

SessionLocks == {"active_sessions", "vouching_sessions"}
KeyLocks == {"vouching_keys", "pairing_codes"}

TickFrame(sid) ==
    LET session == active_sessions[sid]
        after == active_sessions'[sid]
        response == Response(session.remote_node_id, NodeOf(Local), sid)
    IN  IF session # NoSession /\ session.state = "ResponsePending"
        THEN IF session.remote_node_id # None /\ chan_open
             THEN /\ after.state = "ResponseSent"
                  /\ CopiesIn(response, net') = CopiesIn(response, net) + 1
             ELSE /\ after.state = "Failed"
                  /\ net' = net
        ELSE IF /\ session # NoSession
                /\ session.state = "Scanning"
                /\ now - session.created_at > 5 * 60
        THEN after.state = "Failed" /\ net' = net
        ELSE after = session /\ net' = net

\* C36: a driver tick changes only sessions in ResponsePending or Scanning: a
\* ResponsePending session has its response dispatched once and becomes
\* ResponseSent, or Failed if the command channel is closed or it has no remote
\* node id; a Scanning session older than five minutes becomes Failed; every
\* other session and every pairing code stays as it was.
C36_DriverTickFrame ==
    [][process_state_transitions
          => /\ \A sid \in SessionIds : TickFrame(sid)
             /\ pairing_codes' = pairing_codes]_vars

\* the driver has dispatched the response of a ResponsePending session: the
\* session is ResponseSent, the response is on its way, no handler is at work
C36_ResponseDispatchedByDriver ==
    \E sid \in SessionIds :
        /\ active_sessions[sid] # NoSession
        /\ active_sessions[sid].state = "ResponseSent"
        /\ BagIn(Response(NodeOf(Vouchee), NodeOf(Local), sid), net)
        /\ \A t \in TaskIds : tasks[t].pc = "idle"
        /\ injected = 0

\* the answers to a confirmation of target d for session sid that this step
\* sends: the user's decision or the timeout
ConfirmationReplies(d, sid) ==
    {m \in BagToSet(net') :
        /\ m.type = "ProxyPairingResponse"
        /\ m.from = NodeOf(d)
        /\ m.session_id = sid
        /\ \/ m.accepted
           \/ m.reason \in {"User rejected proxy pairing", "Proxy confirmation timed out"}
        /\ CopiesIn(m, net') > CopiesIn(m, net)}

CleanupScheduled(sid) == \E timer \in cleanup_timers : timer.sid = sid

\* this step sends a ProxyPairingComplete for session sid
SendsComplete(sid) ==
    \E m \in BagToSet(net') : /\ m.type = "ProxyPairingComplete"
                              /\ m.session_id = sid
                              /\ CopiesIn(m, net') > CopiesIn(m, net)

\* C38: a vouching session is finalized at most once: once a finalization has
\* sent its ProxyPairingComplete and scheduled the cleanup, no second
\* ProxyPairingComplete is sent for the session and no second cleanup is
\* scheduled.
C38_FinalizedAtMostOnce ==
    [][\A sid \in SessionIds :
          CleanupScheduled(sid)
          => /\ ~SendsComplete(sid)
             /\ \A timer \in cleanup_timers' \ cleanup_timers : timer.sid # sid]_vars

\* a second ProxyPairingComplete is on its way for a session whose first
\* finalization has scheduled the cleanup
C38_SecondCompleteSent ==
    \E sid \in SessionIds, t \in TaskIds :
        /\ CleanupScheduled(sid)
        /\ tasks[t].pc = "fin_purge"
        /\ tasks[t].sid = sid

\* C39: whenever no operation is in progress, the queue and the vouches agree:
\* the queue has an entry for (session, target) exactly when the vouch of that
\* target is Queued or Waiting, and the entry has the status of the vouch; no
\* vouch is left Queued or Waiting without an entry.
C39_QueueAgreesWithVouches ==
    Quiescent
    => \A sid \in SessionIds, target \in Devices :
          /\ HasRow(vouching_queue, sid, target)
             => /\ StatusOfVouch(sid, target) \in {"Queued", "Waiting"}
                /\ RowIs(sid, target, StatusOfVouch(sid, target))
          /\ StatusOfVouch(sid, target) \in {"Queued", "Waiting"}
             => HasRow(vouching_queue, sid, target)

\* every handler has returned and nothing is in flight; C has stored the
\* vouchee, its vouch is Waiting and the queue has no entry for it
C39_WaitingVouchWithoutEntry ==
    \E sid \in SessionIds :
        /\ Quiescent
        /\ net = EmptyBag
        /\ HasInfo("C", Vouchee)
        /\ StatusOfVouch(sid, "C") = "Waiting"
        /\ ~HasRow(vouching_queue, sid, "C")

\* the task in slot t returns from join_pairing_session with an error here
JoinFails(t) ==
    /\ tasks[t].pc = "idle"
    /\ tasks'[t] # tasks[t]
    /\ tasks'[t].pc = "idle"
    /\ tasks'[t].result = "err"

\* C40: join_pairing_session for an id that has an active session returns an
\* error and leaves that session and its code as they are, also when joins, or
\* a join and a start, for the id run side by side; a join with an expired code
\* returns an error and creates nothing.
C40_JoinNeverReplacesASession ==
    [][\A t \in TaskIds :
          /\ JoinFails(t) => UNCHANGED <<active_sessions, pairing_codes>>
          /\ (tasks[t].pc \in {"join_insert", "join_codes"} /\ tasks'[t] # tasks[t])
             => (active_sessions[tasks[t].sid] # NoSession
                 => active_sessions'[tasks[t].sid] = active_sessions[tasks[t].sid])]_vars

\* a join has put its Scanning session over the WaitingForConnection session
\* that a start saved under the same id
C40_StartedSessionReplaced ==
    \E t \in TaskIds :
        /\ tasks[t].pc = "join_codes"
        /\ active_sessions[tasks[t].sid].state = "Scanning"
        /\ persistence[tasks[t].sid] # NoSession
        /\ persistence[tasks[t].sid].state = "WaitingForConnection"

====
